---- MODULE Spec2Model ----
(***************************************************************************)
(* Model of the invoice server of home_financial_tools: the segmentation   *)
(* loop that turns daily time entries into week bills, as it is written    *)
(* twice in server/router.py (generate_invoice and _generate_invoice_pdf), *)
(* and the request handlers that call it.                                  *)
(*                                                                         *)
(* Dates are day indices of March 2024: day d is 2024-03-(d+1); March 1st  *)
(* 2024 is a Friday.  A date string "2024-03-DD" is the pair of its two    *)
(* day digits <<D, D>>.  Hours and rates are small naturals (each exactly  *)
(* representable as a Python float).                                       *)
(***************************************************************************)
EXTENDS Integers, Sequences, FiniteSets, TLC

VARIABLES
    requests,         \* the requests the server receives, in order of arrival
    responses,        \* responses returned so far, oldest first
    corporation,      \* row of table corporation, or NoRow
    bill_to,          \* row of table bill_to, or NoRow
    ship_to,          \* row of table ship_to, or NoRow
    time_entries,     \* table time_entries: date string -> row
    email_settings,   \* row of table email_settings, or NoRow
    settings,         \* table settings: key -> value
    outbox,           \* emails handed to smtp.gmail.com, each a list of attachments
    sessions,         \* table sessions: token -> row
    allowed_users,    \* app.state.allowed_users: username -> password hash
    users,            \* table users: username -> password hash
    config,           \* the configuration file, as yaml.safe_load returns it
    now,              \* the clock, in seconds
    pc,               \* position of the handler being executed
    req,              \* the request (or call) being handled
    half,             \* send_monthly_email: which _generate_invoice_pdf call
    attachments,      \* send_monthly_email: list of generated documents
    sorted_entries,
    entry_map,
    start_dt,         \* start_dt (generate_invoice) / start_date (_generate_invoice_pdf)
    end_dt,           \* end_dt (generate_invoice) / end_date (_generate_invoice_pdf)
    end_dt_type,      \* "date", or "str" when end_dt was taken from an entry's date field
    bills,
    current_dt,
    week_end_dt,
    walk_dt,
    segment_start_dt,
    segment_end_dt,
    segment_hours,
    segment_rate

vars == <<requests, responses, corporation, bill_to, ship_to, time_entries,
          email_settings, settings, outbox, sessions, allowed_users, users,
          config, now, pc, req, half,
          attachments, sorted_entries, entry_map, start_dt, end_dt, end_dt_type,
          bills, current_dt, week_end_dt, walk_dt, segment_start_dt,
          segment_end_dt, segment_hours, segment_rate>>

dbVars == <<corporation, bill_to, ship_to, time_entries, email_settings, settings,
           outbox>>

appVars == <<sessions, allowed_users, users, config, now>>

segVars == <<segment_start_dt, segment_end_dt, segment_hours, segment_rate>>

\* the local variables of generate_invoice, _generate_invoice_pdf and
\* send_monthly_email
handlerVars == <<pc, req, half, attachments, sorted_entries, entry_map, start_dt,
                 end_dt, end_dt_type, bills, current_dt, week_end_dt, walk_dt,
                 segVars>>

(***************************************************************************)
(* Bounds of the model.                                                    *)
(***************************************************************************)
MaxDay == 4          \* request dates range over March 1st .. March (MaxDay+1)th
MaxEntries == 2      \* entries of one request
MaxStoredDay == 2    \* stored entries are dated March 1st .. March (MaxStoredDay+1)th
MaxStored == 3       \* rows of table time_entries

Days == 0..MaxDay
StoredDays == 0..MaxStoredDay
Hours == {0, 1}      \* hours of an entry
Rates == {1, 2}      \* hourly rate of an entry

(***************************************************************************)
(* Python values.                                                          *)
(***************************************************************************)
None == 0 - 1        \* None, for the segment_* variables and the date variables
NoRow == [id |-> 0]  \* fetchone() found no row
NoReq == [kind |-> "none"]

\* None, where the other values are strings, and `not value` of such a value
PyNone == "None"
Falsy(value) == value \in {"", PyNone}
EmptyMap == [k \in {} |-> None]

(***************************************************************************)
(* datetime: weekday(), strftime("%Y-%m-%d") and strptime(.., "%Y-%m-%d"), *)
(* and the order of str values used by sorted().                           *)
(***************************************************************************)
Weekday(d) == (d + 4) % 7

Strftime(d) == <<(d + 1) \div 10, (d + 1) % 10>>

Strptime(s) == s[1] * 10 + s[2] - 1

StrLeq(a, b) == a[1] < b[1] \/ (a[1] = b[1] /\ a[2] <= b[2])

(***************************************************************************)
(* sorted(entries, key=lambda x: x.date): stable insertion by date string. *)
(***************************************************************************)
RECURSIVE InsertByDate(_, _)
InsertByDate(e, s) ==
    IF s = <<>> THEN <<e>>
    ELSE IF StrLeq(s[Len(s)].date, e.date) THEN Append(s, e)
    ELSE Append(InsertByDate(e, SubSeq(s, 1, Len(s) - 1)), s[Len(s)])

RECURSIVE Sorted(_)
Sorted(s) ==
    IF s = <<>> THEN <<>>
    ELSE InsertByDate(s[Len(s)], Sorted(SubSeq(s, 1, Len(s) - 1)))

\* {e.date: e for e in sorted_entries}: a later entry replaces an earlier one
EntryMap(s) ==
    [k \in {s[i].date : i \in 1..Len(s)} |->
        s[CHOOSE i \in 1..Len(s) :
            /\ s[i].date = k
            /\ \A j \in 1..Len(s) : s[j].date = k => j <= i]]

WeekBill(rate, qty, sd, ed) ==
    [hour_rate |-> rate, quantity |-> qty, start_date |-> sd, end_date |-> ed]

(***************************************************************************)
(* Strings are sequences of one-character strings.  str(n) and the format  *)
(* specifications used for the invoice (n is a natural number below 1000,  *)
(* so `,` inserts no thousands separator and the fraction digits are 0).   *)
(***************************************************************************)
DigitChars == <<"0", "1", "2", "3", "4", "5", "6", "7", "8", "9">>

RECURSIVE Str(_)
Str(n) == IF n < 10 THEN <<DigitChars[n + 1]>>
          ELSE Str(n \div 10) \o <<DigitChars[(n % 10) + 1]>>

TwoDigits(n) == <<DigitChars[(n \div 10) + 1], DigitChars[(n % 10) + 1]>>

\* f"{bill.quantity:.1f}"
FormatQuantity(q) == Str(q) \o <<".", "0">>

\* f"${x:,.2f}"
FormatMoney(x) == <<"$">> \o Str(x) \o <<".", "0", "0">>

\* day index of the first day of the next month (April 1st 2024)
NextMonthFirst == 31

\* strftime("%Y%m%d")
DateSuffix(d) ==
    IF d < NextMonthFirst
    THEN <<"2", "0", "2", "4", "0", "3">> \o TwoDigits(d + 1)
    ELSE <<"2", "0", "2", "4", "0", "4">> \o TwoDigits(d - NextMonthFirst + 1)

\* strftime("%B %d %Y")
LongDate(d) ==
    IF d < NextMonthFirst
    THEN <<"M", "a", "r", "c", "h", " ">> \o TwoDigits(d + 1)
         \o <<" ", "2", "0", "2", "4">>
    ELSE <<"A", "p", "r", "i", "l", " ">> \o TwoDigits(d - NextMonthFirst + 1)
         \o <<" ", "2", "0", "2", "4">>

(***************************************************************************)
(* pdf/invoice.py, _add_itemized_description_table: the lines of cells it  *)
(* writes, each line a sequence of cell texts.                             *)
(***************************************************************************)
HeaderRow ==
    << <<"Q", "U", "A", "N", "T", "I", "T", "Y">>,
       <<"D", "E", "S", "C", "R", "I", "P", "T", "I", "O", "N">>,
       <<"U", "N", "I", "T", " ", "P", "R", "I", "C", "E">>,
       <<"A", "M", "O", "U", "N", "T">> >>

TotalLabel == <<"T", "o", "t", "a", "l">>

\* the four cells of one bill: qty, desc, price, amount
ItemRow(bill) ==
    << FormatQuantity(bill.quantity),
       LongDate(bill.start_date) \o <<" ", "-", " ">> \o LongDate(bill.end_date),
       FormatMoney(bill.hour_rate),
       FormatMoney(bill.hour_rate * bill.quantity) >>

\* AddToTotal that adds the unit price only
AddToTotalRateOnly(total_amount, bill) == total_amount + bill.hour_rate

\* `total_amount += bill.hour_rate * bill.quantity`
AddToTotal(total_amount, bill) == total_amount + bill.hour_rate * bill.quantity

\* `for i, bill in enumerate(bills)`: the lines written and the running total
RECURSIVE ItemRows(_, _, _)
ItemRows(items, lines, total_amount) ==
    IF items = <<>> THEN [lines |-> lines, total_amount |-> total_amount]
    ELSE ItemRows(Tail(items), Append(lines, ItemRow(Head(items))),
                  AddToTotal(total_amount, Head(items)))

AddItemizedDescriptionTable(items) ==
    LET written == ItemRows(items, <<HeaderRow>>, 0)
    IN Append(written.lines, <<TotalLabel, FormatMoney(written.total_amount)>>)

(***************************************************************************)
(* The file name of an invoice: str.lower(), re.sub(r"[^a-z0-9]+", "_", .) *)
(* and str.strip("_").                                                     *)
(***************************************************************************)
UpperLetters == <<"A", "B", "C", "D", "E", "F", "G", "H", "I", "J", "K", "L", "M",
                  "N", "O", "P", "Q", "R", "S", "T", "U", "V", "W", "X", "Y", "Z">>
LowerLetters == <<"a", "b", "c", "d", "e", "f", "g", "h", "i", "j", "k", "l", "m",
                  "n", "o", "p", "q", "r", "s", "t", "u", "v", "w", "x", "y", "z">>

Range(f) == {f[i] : i \in DOMAIN f}

LowerChar(c) ==
    IF c \in Range(UpperLetters)
    THEN LowerLetters[CHOOSE i \in DOMAIN UpperLetters : UpperLetters[i] = c]
    ELSE c

Lower(s) == [i \in 1..Len(s) |-> LowerChar(s[i])]

\* the character class [a-z0-9]
AlphaNumeric(c) == c \in Range(LowerLetters) \cup Range(DigitChars)

RECURSIVE SkipRun(_)
SkipRun(s) ==
    IF s = <<>> \/ AlphaNumeric(Head(s)) THEN s ELSE SkipRun(Tail(s))

\* re.sub(r"[^a-z0-9]+", "_", s): every maximal run outside the class becomes "_"
RECURSIVE ReSub(_)
ReSub(s) ==
    IF s = <<>> THEN <<>>
    ELSE IF AlphaNumeric(Head(s)) THEN <<Head(s)>> \o ReSub(Tail(s))
    ELSE <<"_">> \o ReSub(SkipRun(Tail(s)))

RECURSIVE LStrip(_)
LStrip(s) == IF s # <<>> /\ Head(s) = "_" THEN LStrip(Tail(s)) ELSE s

RECURSIVE RStrip(_)
RStrip(s) ==
    IF s # <<>> /\ s[Len(s)] = "_" THEN RStrip(SubSeq(s, 1, Len(s) - 1)) ELSE s

\* s.strip("_")
Strip(s) == RStrip(LStrip(s))

\* SafeCorpName without .strip("_")
SafeCorpNameUnstripped(company_name) == ReSub(Lower(company_name))

\* safe_corp_name
SafeCorpName(company_name) == Strip(ReSub(Lower(company_name)))

\* f"{safe_corp_name}_invoice_{invoice_number}_{date_suffix}.pdf", where
\* date_suffix is the day after last_day
Filename(company_name, invoice_number, last_day) ==
    SafeCorpName(company_name)
        \o <<"_", "i", "n", "v", "o", "i", "c", "e", "_">>
        \o Str(invoice_number) \o <<"_">> \o DateSuffix(last_day + 1)
        \o <<".", "p", "d", "f">>

\* an error response (HTTPException or unhandled exception) or a JSON answer
Response(status, detail, items) ==
    [status |-> status, detail |-> detail, bills |-> items,
     table |-> <<>>, filename |-> <<>>]

\* the rendered invoice, as it is returned or attached
StreamingResponse(items, invoice_number, last_day, company_name) ==
    [status |-> 200, detail |-> "application/pdf", bills |-> items,
     table |-> AddItemizedDescriptionTable(items),
     filename |-> Filename(company_name, invoice_number, last_day)]

(***************************************************************************)
(* Inputs: the entry lists a client can submit.                            *)
(***************************************************************************)
TimeEntry(d, h, r) == [date |-> Strftime(d), hours |-> h, hourly_rate |-> r]

RECURSIVE AscDays(_)
AscDays(S) ==
    IF S = {} THEN <<>>
    ELSE LET m == CHOOSE x \in S : \A y \in S : x <= y
         IN <<m>> \o AscDays(S \ {m})

Reverse(s) == [i \in 1..Len(s) |-> s[Len(s) + 1 - i]]

\* entry lists over the days ds, at most n entries, ascending or descending
EntryLists(ds, n) ==
    UNION { UNION { LET asc == [i \in 1..Cardinality(S) |->
                                   TimeEntry(AscDays(S)[i], f[AscDays(S)[i]][1],
                                             f[AscDays(S)[i]][2])]
                    IN {asc, Reverse(asc)}
                  : f \in [S -> Hours \X Rates] }
          : S \in {T \in SUBSET ds : Cardinality(T) <= n} }

CorpRow == [id |-> 1, company_name |-> <<"A", "c", "m", "e">>]
BillRow == [id |-> 1, company_name |-> <<"C", "l", "i", "e", "n", "t">>]

AddressStates == {<<CorpRow, BillRow>>, <<NoRow, BillRow>>, <<CorpRow, NoRow>>}

(***************************************************************************)
(* Sessions and the X-Auth-Token header.  A token is a natural number, an  *)
(* absent header is None.                                                  *)
(***************************************************************************)
NoUser == ""

\* timedelta(days=30), in seconds
SessionLifetime == 30 * 24 * 60 * 60

\* the session of the logged-in client: 30 days from the login at time 0
StoredSession ==
    [token |-> 1, username |-> "alice", expires_at |-> SessionLifetime]

\* a token no session was stored for
UnknownToken == StoredSession.token + 1

\* a session whose expires_at has passed
ExpiredSession ==
    [token |-> StoredSession.token + 2, username |-> "alice", expires_at |-> 0]

\* bcrypt.hashpw(password, salt): the hash carries the salt it was made with
HashPw(password, salt) == <<"bcrypt", salt, password>>

\* bcrypt.checkpw(password, password_hash): hash again with the salt of the hash
VerifyPassword(password, password_hash) ==
    password_hash = HashPw(password, password_hash[2])

\* the salt of the hashes that earlier runs of the server stored
StoredSalt == "s0"

\* the configuration file: the database path and, unless the key is left out,
\* the map allowed_users
ConfigWithout == [database |-> [path |-> "invoice.db"]]
ConfigFile(allowed) ==
    [database |-> [path |-> "invoice.db"], allowed_users |-> allowed]

\* GetSession without the test of expires_at
GetSessionAnyExpiry(token) ==
    IF token \in DOMAIN sessions THEN sessions[token].username ELSE NoUser

\* db.get_session(token): WHERE token = ? AND expires_at > datetime('now')
GetSession(token) ==
    IF token \in DOMAIN sessions /\ sessions[token].expires_at > now
    THEN sessions[token].username
    ELSE NoUser

\* GetCurrentUser that lets a request without the header pass
GetCurrentUserNoHeader(r) ==
    IF r.token = None THEN "anonymous" ELSE GetSession(r.token)

\* get_current_user(request): the username, or NoUser where it raises
\* AuthenticationError
GetCurrentUser(r) ==
    IF r.token = None THEN NoUser ELSE GetSession(r.token)

GenerateRequest(s, e, l) ==
    [kind |-> "generate", token |-> StoredSession.token, invoice_number |-> 1,
     start_date |-> s, end_date |-> e, entries |-> l]

GenerateRequests ==
    { GenerateRequest(Strftime(s), e, l)
      : s \in Days, e \in {Strftime(d) : d \in Days} \cup {<<>>},
        l \in EntryLists(Days, MaxEntries) }

PdfCallOf(s, e, l) ==
    [kind |-> "pdf", invoice_number |-> 1, start_date |-> s, end_date |-> e,
     entries |-> l]

PdfCalls ==
    { PdfCallOf(s, e, l)
      : s \in Days, e \in Days, l \in EntryLists(Days, MaxEntries) }

InitLocals ==
    /\ pc = "idle"
    /\ req = NoReq
    /\ half = 0
    /\ attachments = <<>>
    /\ sorted_entries = <<>>
    /\ entry_map = EmptyMap
    /\ start_dt = None
    /\ end_dt = None
    /\ end_dt_type = "date"
    /\ bills = <<>>
    /\ current_dt = None
    /\ week_end_dt = None
    /\ walk_dt = None
    /\ segment_start_dt = None
    /\ segment_end_dt = None
    /\ segment_hours = 0
    /\ segment_rate = None

SendEmailRequests ==
    { [kind |-> "send_email", token |-> StoredSession.token, invoice_number |-> 1,
       month |-> 3, year |-> 2024] }

EmailRow == [id |-> 1, gmail_account |-> "me@gmail.com", gmail_app_password |-> "secret"]

EmailStates ==
    {EmailRow, NoRow, [EmailRow EXCEPT !.gmail_app_password = ""],
     [EmailRow EXCEPT !.gmail_account = ""]}

\* table time_entries: one row per date (date is the primary key)
Tables(ds, n) ==
    UNION { { [k \in {Strftime(d) : d \in S} |->
                 TimeEntry(Strptime(k), f[Strptime(k)][1], f[Strptime(k)][2])]
              : f \in [S -> Hours \X Rates] }
          : S \in {T \in SUBSET ds : Cardinality(T) <= n} }

\* table sessions with the two sessions
StoredSessions ==
    [t \in {StoredSession.token, ExpiredSession.token} |->
        IF t = StoredSession.token
        THEN [username |-> StoredSession.username,
              expires_at |-> StoredSession.expires_at]
        ELSE [username |-> ExpiredSession.username,
              expires_at |-> ExpiredSession.expires_at]]

\* the users of the configuration file, hashed at startup; one client is
\* logged in and an older session has expired
InitApp ==
    /\ config = ConfigFile([u \in {"alice"} |-> "pw"])
    /\ users = [u \in {"alice"} |-> HashPw("pw", StoredSalt)]
    /\ allowed_users = users
    /\ sessions = StoredSessions
    /\ now = 0

InitStore ==
    /\ responses = <<>>
    /\ outbox = <<>>
    /\ settings = [k \in {"next_invoice_number"} |-> 1]
    /\ ship_to = NoRow
    /\ InitApp

\* company names of the corporation row
MaxNameLen == 4
NameChars == {"A", "7", " ", "_"}

RECURSIVE Strings(_, _)
Strings(chars, n) ==
    IF n = 0 THEN {<<>>}
    ELSE Strings(chars, n - 1)
         \cup {Append(w, c) : w \in {v \in Strings(chars, n - 1) : Len(v) = n - 1},
                              c \in chars}

\* requests whose X-Auth-Token header is missing, unknown or expired
Unauthenticated(r) ==
    {[r EXCEPT !.token = t] : t \in {None, UnknownToken, ExpiredSession.token}}

\* a few requests that end in a document each
NamedRequests ==
    { [GenerateRequest(Strftime(0), Strftime(e), <<TimeEntry(0, 1, 1)>>)
          EXCEPT !.invoice_number = n] : e \in {0, 1}, n \in {1, 12} }
    \cup { [PdfCallOf(0, e, <<TimeEntry(0, 1, 1)>>) EXCEPT !.invoice_number = n]
            : e \in {0, 1}, n \in {1, 12} }
    \cup SendEmailRequests

\* one request; the stored entries and email settings matter to send_email only
Init ==
    /\ InitLocals
    /\ InitStore
    /\ \/ /\ \E r \in GenerateRequests : requests = <<r>>
          /\ \E a \in AddressStates : corporation = a[1] /\ bill_to = a[2]
          /\ time_entries = EmptyMap
          /\ email_settings = NoRow
       \/ /\ \E r \in PdfCalls : requests = <<r>>
          /\ corporation = CorpRow /\ bill_to = BillRow
          /\ time_entries = EmptyMap
          /\ email_settings = NoRow
       \/ /\ \E r \in SendEmailRequests : requests = <<r>>
          /\ \E a \in AddressStates : corporation = a[1] /\ bill_to = a[2]
          /\ time_entries \in Tables(StoredDays, MaxStored)
          /\ email_settings \in EmailStates
       \/ /\ \E r \in NamedRequests : requests = <<r>>
          /\ \E name \in Strings(NameChars, MaxNameLen) :
                corporation = [CorpRow EXCEPT !.company_name = name]
          /\ bill_to = BillRow
          /\ time_entries = EmptyMap
          /\ email_settings = EmailRow
       \/ /\ \E r \in { GenerateRequest(Strftime(0), Strftime(1), l)
                         : l \in EntryLists({0, 1}, 1) } \cup SendEmailRequests :
                \E u \in Unauthenticated(r) : requests = <<u>>
          /\ \E a \in AddressStates : corporation = a[1] /\ bill_to = a[2]
          /\ time_entries = EmptyMap
          /\ email_settings \in {EmailRow, NoRow}

\* the server is idle and a request is waiting; requests are served one at a time
Pending == pc = "idle" /\ Len(responses) < Len(requests)
Incoming == requests[Len(responses) + 1]

\* the handler returns: its local variables are gone
Return(resp) ==
    /\ responses' = Append(responses, resp)
    /\ pc' = "idle"
    /\ req' = NoReq
    /\ half' = 0
    /\ attachments' = <<>>
    /\ sorted_entries' = <<>>
    /\ entry_map' = EmptyMap
    /\ start_dt' = None
    /\ end_dt' = None
    /\ end_dt_type' = "date"
    /\ bills' = <<>>
    /\ current_dt' = None
    /\ week_end_dt' = None
    /\ walk_dt' = None
    /\ segment_start_dt' = None
    /\ segment_end_dt' = None
    /\ segment_hours' = 0
    /\ segment_rate' = None

\* AddressMissing that wants both rows to be absent
AddressMissingBoth == corporation = NoRow /\ bill_to = NoRow

\* `if not corp or not bill_to`
AddressMissing == corporation = NoRow \/ bill_to = NoRow

(***************************************************************************)
(* Pieces of the loop body, written the same way in both copies of the     *)
(* loop (generate_invoice and _generate_invoice_pdf).                      *)
(***************************************************************************)
\* WeekEnd without the clamp `if week_end_dt > end_dt`
WeekEndUnclamped(cur, last) == cur + (6 - Weekday(cur))

\* days_to_sunday, week_end_dt and the clamp to the end of the range
WeekEnd(cur, last) ==
    LET days_to_sunday == 6 - Weekday(cur)
        week_end == cur + days_to_sunday
    IN IF week_end > last THEN last ELSE week_end

\* NextWeekStart that leaves out the day after the week's end
NextWeekStartSkipsDay(week_end) == week_end + 2

\* `current_dt = week_end_dt + timedelta(days=1)`
NextWeekStart(week_end) == week_end + 1

\* `if date_str in entry_map`
HasEntry(d) == Strftime(d) \in DOMAIN entry_map

\* SameRate with the comparison inverted
SameRateInverted(entry) == entry.hourly_rate # segment_rate

\* `elif entry.hourly_rate == segment_rate`
SameRate(entry) == entry.hourly_rate = segment_rate

\* AddHours with `=` in place of `+=`
AddHoursOverwrites(entry) == entry.hours

\* `segment_hours += entry.hours`
AddHours(entry) == segment_hours + entry.hours

\* ClosedSegment that ends at the day being walked instead of segment_end_dt
ClosedSegmentEndsAtWalk ==
    WeekBill(segment_rate, segment_hours, segment_start_dt, walk_dt)

\* WeekBill(...) of the open segment, appended when the segment is closed
ClosedSegment ==
    WeekBill(segment_rate, segment_hours, segment_start_dt, segment_end_dt)

\* DefaultRate taken from the last entry instead of the first
DefaultRateOfLast ==
    IF sorted_entries # <<>> THEN sorted_entries[Len(sorted_entries)].hourly_rate ELSE 0

\* `sorted_entries[0].hourly_rate if sorted_entries else 0.0`
DefaultRate ==
    IF sorted_entries # <<>> THEN sorted_entries[1].hourly_rate ELSE 0

\* ZeroHourBill that ends with the range instead of the week
ZeroHourBillToRangeEnd == WeekBill(DefaultRate, 0, current_dt, end_dt)

\* the 0-hour bill of a week
ZeroHourBill == WeekBill(DefaultRate, 0, current_dt, week_end_dt)

(***************************************************************************)
(* POST /api/generate                                                      *)
(***************************************************************************)
GenerateStart ==
    /\ pc = "idle"
    /\ UNCHANGED appVars
    /\ Pending
    /\ Incoming.kind = "generate"
    /\ UNCHANGED requests
    /\ UNCHANGED dbVars
    /\ LET r == Incoming
           se == Sorted(r.entries)
       IN IF GetCurrentUser(r) = NoUser
          THEN Return(Response(403, "Invalid authentication credentials", <<>>))
          ELSE IF AddressMissing
          THEN Return(Response(400, "Corporation or Bill To info missing", <<>>))
          ELSE IF se = <<>>
          THEN Return(Response(400, "No time entries provided", <<>>))
          ELSE /\ req' = r
               /\ sorted_entries' = se
               /\ start_dt' = Strptime(r.start_date)
               /\ IF r.end_date # <<>>
                  THEN end_dt' = Strptime(r.end_date) /\ end_dt_type' = "date"
                  ELSE end_dt' = Strptime(se[Len(se)].date) /\ end_dt_type' = "str"
               /\ bills' = <<>>
               /\ entry_map' = EntryMap(se)
               /\ current_dt' = Strptime(r.start_date)
               /\ pc' = "gen_outer"
               /\ UNCHANGED <<responses, half, attachments, week_end_dt, walk_dt, segVars>>

\* one test of `while current_dt <= end_dt` and the head of its body
GenerateWeekStart ==
    /\ pc = "gen_outer"
    /\ UNCHANGED appVars
    /\ UNCHANGED <<requests, dbVars>>
    /\ IF end_dt_type = "str"
       THEN Return(Response(500, "TypeError", <<>>))
       ELSE IF current_dt <= end_dt
       THEN /\ week_end_dt' = WeekEnd(current_dt, end_dt)
            /\ segment_start_dt' = None
            /\ segment_end_dt' = None
            /\ segment_hours' = 0
            /\ segment_rate' = None
            /\ walk_dt' = current_dt
            /\ pc' = "gen_walk"
            /\ UNCHANGED <<responses, req, half, attachments, sorted_entries, entry_map,
                           start_dt, end_dt, end_dt_type, bills, current_dt>>
       ELSE /\ pc' = "gen_after"
            /\ UNCHANGED <<responses, req, half, attachments, sorted_entries, entry_map,
                           start_dt, end_dt, end_dt_type, bills, current_dt,
                           week_end_dt, walk_dt, segVars>>

\* one test of `while walk_dt <= week_end_dt` and its body
GenerateWalkDay ==
    /\ pc = "gen_walk"
    /\ UNCHANGED appVars
    /\ UNCHANGED <<requests, dbVars, responses, req, half, attachments, sorted_entries,
                   entry_map, start_dt, end_dt, end_dt_type, current_dt, week_end_dt>>
    /\ IF walk_dt <= week_end_dt
       THEN /\ LET date_str == Strftime(walk_dt)
               IN IF HasEntry(walk_dt)
                  THEN LET entry == entry_map[date_str]
                       IN IF segment_rate = None
                          THEN /\ segment_rate' = entry.hourly_rate
                               /\ segment_start_dt' = walk_dt
                               /\ segment_end_dt' = walk_dt
                               /\ segment_hours' = entry.hours
                               /\ UNCHANGED bills
                          ELSE IF SameRate(entry)
                          THEN /\ segment_end_dt' = walk_dt
                               /\ segment_hours' = AddHours(entry)
                               /\ UNCHANGED <<bills, segment_rate, segment_start_dt>>
                          ELSE /\ bills' = Append(bills, ClosedSegment)
                               /\ segment_rate' = entry.hourly_rate
                               /\ segment_start_dt' = walk_dt
                               /\ segment_end_dt' = walk_dt
                               /\ segment_hours' = entry.hours
                  ELSE IF segment_rate # None
                       THEN /\ bills' = Append(bills, ClosedSegment)
                            /\ segment_rate' = None
                            /\ segment_hours' = 0
                            /\ segment_start_dt' = None
                            /\ segment_end_dt' = None
                       ELSE UNCHANGED <<bills, segVars>>
            /\ walk_dt' = walk_dt + 1
            /\ pc' = "gen_walk"
       ELSE /\ pc' = "gen_close"
            /\ UNCHANGED <<bills, walk_dt, segVars>>

\* after the walk: close the last segment or add the 0-hour bill; next week
GenerateWeekEnd ==
    /\ pc = "gen_close"
    /\ UNCHANGED appVars
    /\ UNCHANGED <<requests, dbVars, responses, req, half, attachments, sorted_entries,
                   entry_map, start_dt, end_dt, end_dt_type, week_end_dt, walk_dt, segVars>>
    /\ IF segment_rate # None
       THEN bills' = Append(bills, ClosedSegment)
       ELSE IF current_dt <= week_end_dt
       THEN bills' = Append(bills, ZeroHourBill)
       ELSE UNCHANGED bills
    /\ current_dt' = NextWeekStart(week_end_dt)
    /\ pc' = "gen_outer"

GenerateFinish ==
    /\ pc = "gen_after"
    /\ UNCHANGED appVars
    /\ UNCHANGED <<requests, dbVars>>
    /\ IF bills = <<>>
       THEN Return(Response(400, "No billable hours found in specified range", <<>>))
       ELSE Return(StreamingResponse(bills, req.invoice_number, end_dt,
                                     corporation.company_name))

(***************************************************************************)
(* _generate_invoice_pdf(corp, bill_to, entries, start_date, end_date,     *)
(* invoice_number): the second copy of the loop.                           *)
(***************************************************************************)
\* PdfEnter that takes the entries in the order they were passed
PdfEnterUnsorted(entries, sd, ed) ==
    /\ sorted_entries' = entries
    /\ bills' = <<>>
    /\ entry_map' = EntryMap(entries)
    /\ start_dt' = sd
    /\ end_dt' = ed
    /\ end_dt_type' = "date"
    /\ current_dt' = sd
    /\ pc' = "pdf_outer"

\* the function is entered: lines up to `current_dt = start_date`
PdfEnter(entries, sd, ed) ==
    /\ sorted_entries' = Sorted(entries)
    /\ bills' = <<>>
    /\ entry_map' = EntryMap(Sorted(entries))
    /\ start_dt' = sd
    /\ end_dt' = ed
    /\ end_dt_type' = "date"
    /\ current_dt' = sd
    /\ pc' = "pdf_outer"

PdfCall ==
    /\ pc = "idle"
    /\ UNCHANGED appVars
    /\ Pending
    /\ Incoming.kind = "pdf"
    /\ UNCHANGED requests
    /\ req' = Incoming
    /\ PdfEnter(Incoming.entries, Incoming.start_date, Incoming.end_date)
    /\ UNCHANGED <<dbVars, responses, half, attachments, week_end_dt, walk_dt, segVars>>

PdfWeekStart ==
    /\ pc = "pdf_outer"
    /\ UNCHANGED appVars
    /\ UNCHANGED <<requests, dbVars, responses, req, half, attachments, sorted_entries,
                   entry_map, start_dt, end_dt, end_dt_type, bills, current_dt>>
    /\ IF current_dt <= end_dt
       THEN /\ week_end_dt' = WeekEnd(current_dt, end_dt)
            /\ segment_start_dt' = None
            /\ segment_end_dt' = None
            /\ segment_hours' = 0
            /\ segment_rate' = None
            /\ walk_dt' = current_dt
            /\ pc' = "pdf_walk"
       ELSE /\ pc' = "pdf_after"
            /\ UNCHANGED <<week_end_dt, walk_dt, segVars>>

PdfWalkDay ==
    /\ pc = "pdf_walk"
    /\ UNCHANGED appVars
    /\ UNCHANGED <<requests, dbVars, responses, req, half, attachments, sorted_entries,
                   entry_map, start_dt, end_dt, end_dt_type, current_dt, week_end_dt>>
    /\ IF walk_dt <= week_end_dt
       THEN /\ LET date_str == Strftime(walk_dt)
               IN IF HasEntry(walk_dt)
                  THEN LET entry == entry_map[date_str]
                       IN IF segment_rate = None
                          THEN /\ segment_rate' = entry.hourly_rate
                               /\ segment_start_dt' = walk_dt
                               /\ segment_end_dt' = walk_dt
                               /\ segment_hours' = entry.hours
                               /\ UNCHANGED bills
                          ELSE IF SameRate(entry)
                          THEN /\ segment_end_dt' = walk_dt
                               /\ segment_hours' = AddHours(entry)
                               /\ UNCHANGED <<bills, segment_rate, segment_start_dt>>
                          ELSE /\ bills' = Append(bills, ClosedSegment)
                               /\ segment_rate' = entry.hourly_rate
                               /\ segment_start_dt' = walk_dt
                               /\ segment_end_dt' = walk_dt
                               /\ segment_hours' = entry.hours
                  ELSE IF segment_rate # None
                       THEN /\ bills' = Append(bills, ClosedSegment)
                            /\ segment_rate' = None
                            /\ segment_hours' = 0
                            /\ segment_start_dt' = None
                            /\ segment_end_dt' = None
                       ELSE UNCHANGED <<bills, segVars>>
            /\ walk_dt' = walk_dt + 1
            /\ pc' = "pdf_walk"
       ELSE /\ pc' = "pdf_close"
            /\ UNCHANGED <<bills, walk_dt, segVars>>

PdfWeekEnd ==
    /\ pc = "pdf_close"
    /\ UNCHANGED appVars
    /\ UNCHANGED <<requests, dbVars, responses, req, half, attachments, sorted_entries,
                   entry_map, start_dt, end_dt, end_dt_type, week_end_dt, walk_dt, segVars>>
    /\ IF segment_rate # None
       THEN bills' = Append(bills, ClosedSegment)
       ELSE IF current_dt <= week_end_dt
       THEN bills' = Append(bills, ZeroHourBill)
       ELSE UNCHANGED bills
    /\ current_dt' = NextWeekStart(week_end_dt)
    /\ pc' = "pdf_outer"

(***************************************************************************)
(* POST /api/send_email                                                    *)
(***************************************************************************)
\* db.get_time_entries(start, end): WHERE date BETWEEN ? AND ? on the date text
RECURSIVE RowList(_)
RowList(K) ==
    IF K = {} THEN <<>>
    ELSE LET m == CHOOSE x \in K : \A y \in K : StrLeq(x, y)
         IN <<time_entries[m]>> \o RowList(K \ {m})

GetTimeEntries(start_str, end_str) ==
    RowList({k \in DOMAIN time_entries : StrLeq(start_str, k) /\ StrLeq(k, end_str)})

\* [e for e in entries if e.get("hours", 0) > 0]
PositiveHours(entries) == SelectSeq(entries, LAMBDA e : e.hours > 0)

\* day indices of the two halves of the month of the request (March 2024)
FirstHalfStart == 1 - 1
FirstHalfEnd == 15 - 1
SecondHalfStart == 16 - 1
SecondHalfEnd == NextMonthFirst - 1

FirstHalfEntries ==
    PositiveHours(GetTimeEntries(Strftime(FirstHalfStart), Strftime(FirstHalfEnd)))
SecondHalfEntries ==
    PositiveHours(GetTimeEntries(Strftime(SecondHalfStart), Strftime(SecondHalfEnd)))

\* (pdf_bytes, filename), as _generate_invoice_pdf returns it
Document(items, invoice_number, last_day, company_name) ==
    [bills |-> items, table |-> AddItemizedDescriptionTable(items),
     filename |-> Filename(company_name, invoice_number, last_day)]

SendEmailStart ==
    /\ pc = "idle"
    /\ UNCHANGED appVars
    /\ Pending
    /\ Incoming.kind = "send_email"
    /\ UNCHANGED requests
    /\ UNCHANGED dbVars
    /\ IF GetCurrentUser(Incoming) = NoUser
       THEN Return(Response(403, "Invalid authentication credentials", <<>>))
       ELSE IF email_settings = NoRow \/ Falsy(email_settings.gmail_app_password)
       THEN Return(Response(400, "Email settings not configured. Please set Gmail app password.", <<>>))
       ELSE IF Falsy(email_settings.gmail_account)
       THEN Return(Response(400, "Gmail account not configured for SMTP login.", <<>>))
       ELSE IF AddressMissing
       THEN Return(Response(400, "Corporation or Bill To info missing", <<>>))
       ELSE /\ req' = Incoming
            /\ attachments' = <<>>
            /\ half' = 1
            /\ PdfEnter(FirstHalfEntries, FirstHalfStart, FirstHalfEnd)
            /\ UNCHANGED <<responses, week_end_dt, walk_dt, segVars>>

\* the end of _generate_invoice_pdf, and what its caller does with the result
PdfFinish ==
    /\ pc = "pdf_after"
    /\ UNCHANGED appVars
    /\ UNCHANGED <<requests, dbVars>>
    /\ IF req.kind = "pdf"
       THEN Return(StreamingResponse(bills, req.invoice_number, end_dt,
                                     corporation.company_name))
       ELSE /\ attachments' =
                  Append(attachments,
                         Document(bills, req.invoice_number + (half - 1), end_dt,
                                  corporation.company_name))
            /\ UNCHANGED <<responses, req, week_end_dt, walk_dt, segVars>>
            /\ IF half = 1
               THEN /\ half' = 2
                    /\ PdfEnter(SecondHalfEntries, SecondHalfStart, SecondHalfEnd)
               ELSE /\ pc' = "se_send"
                    /\ UNCHANGED <<half, sorted_entries, entry_map, start_dt, end_dt,
                                   end_dt_type, bills, current_dt>>

\* _send_email_with_attachments succeeds; next_invoice_number is stored
SendEmailSent ==
    /\ pc = "se_send"
    /\ UNCHANGED appVars
    /\ outbox' = Append(outbox, attachments)
    /\ settings' = [k \in DOMAIN settings \cup {"next_invoice_number"} |->
                       IF k = "next_invoice_number"
                       THEN req.invoice_number + 2 ELSE settings[k]]
    /\ UNCHANGED <<requests, corporation, bill_to, ship_to, time_entries, email_settings>>
    /\ Return(Response(200, "success", <<>>))

\* SendEmailSmtpError where db.save_setting was called before the email is sent
SendEmailSmtpErrorAfterSave ==
    /\ pc = "se_send"
    /\ UNCHANGED appVars
    /\ UNCHANGED <<requests, corporation, bill_to, ship_to, time_entries, email_settings,
                   outbox>>
    /\ settings' = [k \in DOMAIN settings \cup {"next_invoice_number"} |->
                       IF k = "next_invoice_number"
                       THEN req.invoice_number + 2 ELSE settings[k]]
    /\ Return(Response(500, "Internal server error", <<>>))

\* smtplib raises and the handler ends in a 500: before the message is handed
\* over (connection, TLS or login failure) or after it (the QUIT of the `with`
\* block is answered with an error); db.save_setting is not reached
SendEmailSmtpError ==
    /\ pc = "se_send"
    /\ UNCHANGED appVars
    /\ UNCHANGED <<requests, corporation, bill_to, ship_to, time_entries, email_settings,
                   settings>>
    /\ \E handed_over \in BOOLEAN :
          outbox' = IF handed_over THEN Append(outbox, attachments) ELSE outbox
    /\ Return(Response(500, "Internal server error", <<>>))

Next ==
    \/ GenerateStart
    \/ GenerateWeekStart
    \/ GenerateWalkDay
    \/ GenerateWeekEnd
    \/ GenerateFinish
    \/ PdfCall
    \/ PdfWeekStart
    \/ PdfWalkDay
    \/ PdfWeekEnd
    \/ PdfFinish
    \/ SendEmailStart
    \/ SendEmailSent
    \/ SendEmailSmtpError

Spec == Init /\ [][Next]_vars

(***************************************************************************)
(* Two requests for the same range start <= end, served one after the      *)
(* other, whose entry lists agree on every date inside the range.          *)
(***************************************************************************)
PairMaxDay == 2       \* dates of the two requests: March 1st .. March (PairMaxDay+1)th
PairMaxEntries == 2   \* entries of each of the two requests

PairDays == 0..PairMaxDay

EntryDates(entries) == {entries[i].date : i \in 1..Len(entries)}

EntryOn(entries, k) == {entries[i] : i \in {j \in 1..Len(entries) : entries[j].date = k}}

AgreeWithin(l1, l2, s, e) ==
    \A d \in s..e : EntryOn(l1, Strftime(d)) = EntryOn(l2, Strftime(d))

AscendingLists(ds, n) ==
    {l \in EntryLists(ds, n) : \A i \in 1..Len(l) - 1 : StrLeq(l[i].date, l[i + 1].date)}

InitPair ==
    /\ InitLocals
    /\ responses = <<>>
    /\ outbox = <<>>
    /\ settings = [k \in {"next_invoice_number"} |-> 1]
    /\ ship_to = NoRow
    /\ InitApp
    /\ corporation = CorpRow
    /\ bill_to = BillRow
    /\ time_entries = EmptyMap
    /\ email_settings = NoRow
    /\ \E s \in PairDays, e \in PairDays :
       \E l1 \in AscendingLists(PairDays, PairMaxEntries),
          l2 \in AscendingLists(PairDays, PairMaxEntries) :
          /\ s <= e
          /\ AgreeWithin(l1, l2, s, e)
          /\ \/ requests = <<GenerateRequest(Strftime(s), Strftime(e), l1),
                               GenerateRequest(Strftime(s), Strftime(e), l2)>>
             \/ requests = <<PdfCallOf(s, e, l1), PdfCallOf(s, e, l2)>>

NextPair ==
    \/ GenerateStart
    \/ GenerateWeekStart
    \/ GenerateWalkDay
    \/ GenerateWeekEnd
    \/ GenerateFinish
    \/ PdfCall
    \/ PdfWeekStart
    \/ PdfWalkDay
    \/ PdfWeekEnd
    \/ PdfFinish

SpecPair == InitPair /\ [][NextPair]_vars

(***************************************************************************)
(* Properties of the line items.  They are read where the loop has ended   *)
(* and its result is complete: before the `if not bills` test of           *)
(* generate_invoice and before the rendering of _generate_invoice_pdf.     *)
(***************************************************************************)
LoopDone == pc \in {"gen_after", "pdf_after"}

Items == 1..Len(bills)

Covers(b, d) == b.start_date <= d /\ d <= b.end_date

ItemsAt(d) == {i \in Items : Covers(bills[i], d)}

\* items that close a segment end on a day with an entry; a 0-hour bill of a
\* week ends on a day without one
SegmentItemsAt(d) == {i \in ItemsAt(d) : HasEntry(bills[i].end_date)}

Monday(d) == d - Weekday(d)

RangeDays == start_dt..end_dt

C2_OrderedDisjoint ==
    LoopDone =>
        \A i \in Items : i < Len(bills) => bills[i].end_date < bills[i + 1].start_date

\* C3: every line item has start_date <= end_date, lies within one Monday to
\* Sunday week and within the requested range.
C3_ItemWithinWeekAndRange ==
    \A i \in Items :
        /\ bills[i].start_date <= bills[i].end_date
        /\ Monday(bills[i].start_date) = Monday(bills[i].end_date)
        /\ start_dt <= bills[i].start_date
        /\ bills[i].end_date <= end_dt

\* C3 witness: the loop ended with an item of several days that ends on a
\* Sunday, followed by an item that starts on the Monday.
C3_Witness ==
    /\ LoopDone
    /\ \E i \in Items :
        /\ i < Len(bills)
        /\ bills[i].start_date < bills[i].end_date
        /\ Weekday(bills[i].end_date) = 6
        /\ bills[i + 1].start_date = bills[i].end_date + 1

\* C4: every entry dated within a line item has the item's rate.
C4_RateHomogeneity ==
    LoopDone =>
        \A i \in Items : \A d \in bills[i].start_date..bills[i].end_date :
            HasEntry(d) => entry_map[Strftime(d)].hourly_rate = bills[i].hour_rate

RECURSIVE SumQuantity(_)
SumQuantity(bs) ==
    IF bs = <<>> THEN 0 ELSE bs[1].quantity + SumQuantity(Tail(bs))

RECURSIVE SumAmount(_)
SumAmount(bs) ==
    IF bs = <<>> THEN 0 ELSE bs[1].hour_rate * bs[1].quantity + SumAmount(Tail(bs))

InRange(e) == start_dt <= Strptime(e.date) /\ Strptime(e.date) <= end_dt

RECURSIVE SumHours(_)
SumHours(es) ==
    IF es = <<>> THEN 0
    ELSE (IF InRange(es[1]) THEN es[1].hours ELSE 0) + SumHours(Tail(es))

RECURSIVE SumEarned(_)
SumEarned(es) ==
    IF es = <<>> THEN 0
    ELSE (IF InRange(es[1]) THEN es[1].hourly_rate * es[1].hours ELSE 0)
         + SumEarned(Tail(es))

\* C5: the quantities of the line items add up to the hours of the entries
\* dated within the range, and the amounts to the sum of rate x hours.
C5_HoursPreserved ==
    LoopDone =>
        /\ SumQuantity(bills) = SumHours(sorted_entries)
        /\ SumAmount(bills) = SumEarned(sorted_entries)

\* C5 witness: the loop ended with an item that adds up the hours of several
\* entry days, and the two sums of hours are equal and above one hour.
C5_Witness ==
    /\ LoopDone
    /\ \E i \in Items :
        /\ bills[i].quantity > 1
        /\ bills[i].start_date < bills[i].end_date
    /\ SumQuantity(bills) = SumHours(sorted_entries)
    /\ SumQuantity(bills) > 1

Closing == pc \in {"gen_close", "pdf_close"}

NoEntryIn(a, b) == \A d \in a..b : ~HasEntry(d)

\* C6: at the end of a week slice a zero-quantity bill for [cursor, week_end]
\* is added if and only if no day of the slice has an entry, and its rate is
\* that of the earliest entry of the input (0 for an empty input).
C6_ZeroBillIffEmptyWeek ==
    [][Closing =>
        /\ (segment_rate = None /\ Len(bills') = Len(bills) + 1)
              <=> NoEntryIn(current_dt, week_end_dt)
        /\ (segment_rate = None /\ Len(bills') = Len(bills) + 1) =>
              bills'[Len(bills')] =
                  WeekBill(IF sorted_entries # <<>>
                           THEN sorted_entries[1].hourly_rate ELSE 0,
                           0, current_dt, week_end_dt)]_vars

\* C7: two line items adjacent in time differ in rate or meet at a Sunday to
\* Monday boundary, and two consecutive entry days of one week with the same
\* rate lie in the same line items.
C7_SegmentsMaximal ==
    LoopDone =>
        /\ \A i, j \in Items :
              bills[j].start_date = bills[i].end_date + 1 =>
                  \/ bills[i].hour_rate # bills[j].hour_rate
                  \/ Weekday(bills[i].end_date) = 6
        /\ \A d \in RangeDays :
              ( /\ d + 1 \in RangeDays
                /\ Weekday(d) # 6
                /\ HasEntry(d) /\ HasEntry(d + 1)
                /\ entry_map[Strftime(d)].hourly_rate
                     = entry_map[Strftime(d + 1)].hourly_rate )
              => /\ \E i \in Items : Covers(bills[i], d) /\ Covers(bills[i], d + 1)
                 /\ \A i \in Items : Covers(bills[i], d) <=> Covers(bills[i], d + 1)

\* C7 witness: within one week an item is directly followed by an item of
\* another rate; or two items with hours and the same rate meet at a Sunday to
\* Monday boundary.
C7_Witness ==
    /\ LoopDone
    /\ \/ \E i, j \in Items :
            /\ bills[j].start_date = bills[i].end_date + 1
            /\ bills[i].hour_rate # bills[j].hour_rate
            /\ Weekday(bills[i].end_date) # 6
            /\ HasEntry(bills[i].end_date) /\ HasEntry(bills[j].start_date)
       \/ \E i, j \in Items :
            /\ bills[j].start_date = bills[i].end_date + 1
            /\ bills[i].hour_rate = bills[j].hour_rate
            /\ bills[i].quantity > 0 /\ bills[j].quantity > 0

\* the entries the client submitted or, for send_email, the stored entries
GivenEntries ==
    IF req.kind = "send_email" THEN time_entries ELSE EntryMap(Sorted(req.entries))

\* C8: on every invoice path a 0-hour entry day between two entry days of the
\* same week and the same rate lies in one line item with both neighbours.
C8_ZeroHourDayExtends ==
    LoopDone =>
        \A d \in RangeDays :
            ( /\ d - 1 \in RangeDays /\ d + 1 \in RangeDays
              /\ Monday(d - 1) = Monday(d + 1)
              /\ {Strftime(d - 1), Strftime(d), Strftime(d + 1)} \subseteq DOMAIN GivenEntries
              /\ GivenEntries[Strftime(d)].hours = 0
              /\ GivenEntries[Strftime(d - 1)].hourly_rate = GivenEntries[Strftime(d)].hourly_rate
              /\ GivenEntries[Strftime(d + 1)].hourly_rate = GivenEntries[Strftime(d)].hourly_rate )
            => \E i \in Items :
                  Covers(bills[i], d - 1) /\ Covers(bills[i], d) /\ Covers(bills[i], d + 1)

BothAnswered == Len(requests) = 2 /\ Len(responses) = 2

SameRangeAgreeing ==
    /\ requests[1].kind = requests[2].kind
    /\ requests[1].start_date = requests[2].start_date
    /\ requests[1].end_date = requests[2].end_date
    /\ LET s == IF requests[1].kind = "pdf" THEN requests[1].start_date
                ELSE Strptime(requests[1].start_date)
           e == IF requests[1].kind = "pdf" THEN requests[1].end_date
                ELSE Strptime(requests[1].end_date)
       IN AgreeWithin(requests[1].entries, requests[2].entries, s, e)

\* the loop runs for both requests: generate_invoice rejects an empty list
\* before it, _generate_invoice_pdf does not
LoopRunsForBoth ==
    \/ requests[1].kind = "pdf"
    \/ requests[1].entries # <<>> /\ requests[2].entries # <<>>

\* C9, as claimed: two entry sets that agree inside the range give identical
\* line-item sequences, the rates of zero-quantity items included.
C9_OutsideEntriesIgnored ==
    (BothAnswered /\ SameRangeAgreeing /\ LoopRunsForBoth) =>
        responses[1].bills = responses[2].bills

FirstRate(entries) ==
    IF entries = <<>> THEN 0 ELSE Sorted(entries)[1].hourly_rate

SameShape(b1, b2) ==
    /\ b1.start_date = b2.start_date
    /\ b1.end_date = b2.end_date
    /\ b1.quantity = b2.quantity

\* C9, amended: two entry sets that agree inside the range give line items with
\* the same dates and quantities and the same rate for every item that ends on
\* an entry day; the zero-quantity week bills carry the rate of the earliest
\* entry of the whole set (0 for an empty set), so the two results are
\* identical when the sets also agree on that rate.
C9_OutsideEntriesOnlySetDefaultRate ==
    (BothAnswered /\ SameRangeAgreeing /\ LoopRunsForBoth) =>
        LET l1 == requests[1].entries
            l2 == requests[2].entries
            b1 == responses[1].bills
            b2 == responses[2].bills
        IN /\ responses[1].status = responses[2].status
           /\ Len(b1) = Len(b2)
           /\ \A i \in 1..Len(b1) :
                 /\ SameShape(b1[i], b2[i])
                 /\ Strftime(b1[i].end_date) \in EntryDates(l1) =>
                       b1[i].hour_rate = b2[i].hour_rate
                 /\ Strftime(b1[i].end_date) \notin EntryDates(l1) =>
                       /\ b1[i].quantity = 0
                       /\ b1[i].hour_rate = FirstRate(l1)
                       /\ b2[i].hour_rate = FirstRate(l2)
           /\ FirstRate(l1) = FirstRate(l2) => responses[1] = responses[2]

\* C9 witness: both requests were answered with a document, their entry lists
\* differ outside the range and have different last rates but the same first
\* rate, and the document has a zero-quantity week bill and an item with hours.
C9_Witness ==
    /\ BothAnswered /\ SameRangeAgreeing
    /\ requests[1].entries # requests[2].entries
    /\ requests[1].entries # <<>> /\ requests[2].entries # <<>>
    /\ FirstRate(requests[1].entries) = FirstRate(requests[2].entries)
    /\ requests[1].entries[Len(requests[1].entries)].hourly_rate
         # requests[2].entries[Len(requests[2].entries)].hourly_rate
    /\ responses[1].status = 200
    /\ \E i, j \in 1..Len(responses[1].bills) :
          /\ responses[1].bills[i].quantity > 0
          /\ responses[1].bills[j].quantity = 0
          /\ Strftime(responses[1].bills[j].end_date) \notin EntryDates(requests[1].entries)

RangeInverted(r) ==
    \/ r.kind = "pdf" /\ r.start_date > r.end_date
    \/ /\ r.kind = "generate"
       /\ r.token = StoredSession.token
       /\ r.end_date # <<>>
       /\ Strptime(r.start_date) > Strptime(r.end_date)

WeekMaxEntries == 5   \* entries of the request

FirstMonday == CHOOSE d \in 0..6 : Weekday(d) = 0

WeekDays == FirstMonday..(FirstMonday + 6)

\* what a client records for one day: nothing, or hours and a rate
DayChoices == {<<>>} \cup (Hours \X Rates)

RECURSIVE EntriesOf(_, _, _)
EntriesOf(f, d, last) ==
    IF d > last THEN <<>>
    ELSE (IF f[d] = <<>> THEN <<>> ELSE <<TimeEntry(d, f[d][1], f[d][2])>>)
         \o EntriesOf(f, d + 1, last)

\* the entry lists over the days of the week, in date order
WeekLists ==
    { EntriesOf(f, FirstMonday, FirstMonday + 6)
      : f \in { g \in [WeekDays -> DayChoices]
                : Cardinality({d \in WeekDays : g[d] # <<>>}) <= WeekMaxEntries } }

InitWeek ==
    /\ InitLocals
    /\ InitStore
    /\ corporation = CorpRow
    /\ bill_to = BillRow
    /\ time_entries = EmptyMap
    /\ email_settings = NoRow
    /\ \E l \in WeekLists :
          \/ requests = <<GenerateRequest(Strftime(FirstMonday),
                                          Strftime(FirstMonday + 6), l)>>
          \/ requests = <<PdfCallOf(FirstMonday, FirstMonday + 6, l)>>

NextWeek ==
    \/ GenerateStart
    \/ GenerateWeekStart
    \/ GenerateWalkDay
    \/ GenerateWeekEnd
    \/ GenerateFinish
    \/ PdfCall
    \/ PdfWeekStart
    \/ PdfWalkDay
    \/ PdfWeekEnd
    \/ PdfFinish

SpecWeek == InitWeek /\ [][NextWeek]_vars

EntryDays == {d \in RangeDays : HasEntry(d)}

RateOn(d) == entry_map[Strftime(d)].hourly_rate

HoursOn(d) == entry_map[Strftime(d)].hours

RECURSIVE HoursFrom(_, _)
HoursFrom(a, b) == IF a > b THEN 0 ELSE HoursOn(a) + HoursFrom(a + 1, b)

FullWeekRange == Weekday(start_dt) = 0 /\ end_dt = start_dt + 6

\* the entries of the week are the days a..b, all at one rate
SingleRun(a, b) ==
    /\ a <= b
    /\ EntryDays = a..b
    /\ \A d \in a..b : RateOn(d) = RateOn(a)

\* C11: over a range of one whole week whose entries form a single run of
\* consecutive days a..b at one rate r, the result is exactly one line item,
\* from a to b at rate r with the sum of the run's hours, and no other item.
C11_SingleRunOneItem ==
    (LoopDone /\ FullWeekRange) =>
        \A a, b \in RangeDays :
            SingleRun(a, b) =>
                bills = <<WeekBill(RateOn(a), HoursFrom(a, b), a, b)>>

\* days a..a+4 of one week carry the rates r, r, s, r, r with s # r, and the
\* run ends there (no entry on the day before or after it within the week)
RateChangeRun(a) ==
    /\ a + 4 \in RangeDays
    /\ Monday(a) = Monday(a + 4)
    /\ \A d \in a..(a + 4) : HasEntry(d)
    /\ RateOn(a + 1) = RateOn(a)
    /\ RateOn(a + 2) # RateOn(a)
    /\ RateOn(a + 3) = RateOn(a)
    /\ RateOn(a + 4) = RateOn(a)
    /\ (a - 1 \in RangeDays /\ Monday(a - 1) = Monday(a)) => ~HasEntry(a - 1)
    /\ (a + 5 \in RangeDays /\ Monday(a + 5) = Monday(a)) => ~HasEntry(a + 5)

ItemsWithin(a, b) ==
    {i \in Items : a <= bills[i].start_date /\ bills[i].end_date <= b}

GapBetween(d) ==
    /\ d - 1 \in RangeDays /\ d + 1 \in RangeDays
    /\ Monday(d - 1) = Monday(d + 1)
    /\ HasEntry(d - 1) /\ ~HasEntry(d) /\ HasEntry(d + 1)
    /\ RateOn(d - 1) = RateOn(d + 1)

\* C13: when day d has no entry and d-1 and d+1 of the same week have entries
\* at the same rate, d-1 is the last day of one line item and d+1 the first
\* day of a different one, no item that ends on an entry day covers both, and
\* d is not the start or end date of any item that covers d-1 or d+1.
C13_GapDaySplits ==
    LoopDone =>
        \A d \in RangeDays :
            GapBetween(d) =>
                /\ \E i, j \in Items :
                      /\ i # j
                      /\ bills[i].end_date = d - 1
                      /\ bills[j].start_date = d + 1
                      /\ ~Covers(bills[i], d + 1) /\ ~Covers(bills[j], d - 1)
                /\ \A k \in Items :
                      (Covers(bills[k], d - 1) /\ Covers(bills[k], d + 1)) =>
                          ~HasEntry(bills[k].end_date) /\ bills[k].quantity = 0
                /\ \A k \in Items :
                      (Covers(bills[k], d - 1) \/ Covers(bills[k], d + 1)) =>
                          bills[k].start_date # d /\ bills[k].end_date # d

\* C13 witness: the loop ended with two items of one hour each at the same
\* rate, one ending the day before a day without entry and one starting the
\* day after it.
C13_Witness ==
    /\ LoopDone
    /\ \E d \in RangeDays :
          /\ GapBetween(d)
          /\ \E i, j \in Items :
                /\ bills[i].end_date = d - 1 /\ bills[j].start_date = d + 1
                /\ bills[i].hour_rate = bills[j].hour_rate
                /\ bills[i].quantity = 1 /\ bills[j].quantity = 1

WeeksTouched == {Monday(d) : d \in RangeDays}

Later(a, b) == IF a > b THEN a ELSE b
Earlier(a, b) == IF a < b THEN a ELSE b

\* the part of the week that starts on Monday m that lies within the range
SliceOf(m) == [first |-> Later(start_dt, m), last |-> Earlier(end_dt, m + 6)]

\* C14: _generate_invoice_pdf with an empty entry list and start_date <=
\* end_date ends its loop with exactly one line item per calendar week the
\* range touches, in date order, each with quantity 0 and rate 0 and spanning
\* exactly the part of that week within the range.
C14_EmptyInputOneZeroItemPerWeek ==
    (pc = "pdf_after" /\ sorted_entries = <<>> /\ start_dt <= end_dt) =>
        /\ Len(bills) = Cardinality(WeeksTouched)
        /\ \A m \in WeeksTouched :
              \E i \in Items :
                  bills[i] = WeekBill(0, 0, SliceOf(m).first, SliceOf(m).last)
        /\ \A i \in Items :
              i < Len(bills) => bills[i].end_date + 1 = bills[i + 1].start_date

\* C14 witness: send_monthly_email segmented the second half of a month with
\* no recorded hours, 16th to 31st, into three items: a week slice of two
\* days and two whole weeks.
C14_Witness ==
    /\ pc = "pdf_after"
    /\ req.kind = "send_email" /\ half = 2
    /\ sorted_entries = <<>>
    /\ Len(bills) = 3
    /\ bills[1] = WeekBill(0, 0, SecondHalfStart, SecondHalfStart + 1)
    /\ bills[3].end_date = SecondHalfEnd

DigitValue(c) == (CHOOSE i \in DOMAIN DigitChars : DigitChars[i] = c) - 1

RECURSIVE NumberValue(_)
NumberValue(digits) ==
    IF digits = <<>> THEN 0
    ELSE 10 * NumberValue(SubSeq(digits, 1, Len(digits) - 1))
         + DigitValue(digits[Len(digits)])

\* a text "$" digits "." "00"
IsMoney(text) ==
    /\ Len(text) >= 5
    /\ text[1] = "$"
    /\ SubSeq(text, Len(text) - 2, Len(text)) = <<".", "0", "0">>
    /\ \A i \in 2..(Len(text) - 3) : text[i] \in Range(DigitChars)

\* the amount a money text shows
MoneyValue(text) == NumberValue(SubSeq(text, 2, Len(text) - 3))

\* the table has the header line, one line per item in the order of the items
\* with the item's dates, unit price and amount hour_rate x quantity, and then
\* one Total line with the sum of the amounts
TableOfItems(table, items) ==
    /\ Len(table) = Len(items) + 2
    /\ table[1] = HeaderRow
    /\ \A k \in 1..Len(items) :
          /\ Len(table[k + 1]) = 4
          /\ table[k + 1][1] = Str(items[k].quantity) \o <<".", "0">>
          /\ table[k + 1][2] = LongDate(items[k].start_date) \o <<" ", "-", " ">>
                                  \o LongDate(items[k].end_date)
          /\ IsMoney(table[k + 1][3])
          /\ MoneyValue(table[k + 1][3]) = items[k].hour_rate
          /\ IsMoney(table[k + 1][4])
          /\ MoneyValue(table[k + 1][4]) = items[k].hour_rate * items[k].quantity
    /\ Len(table[Len(table)]) = 2
    /\ table[Len(table)][1] = TotalLabel
    /\ IsMoney(table[Len(table)][2])
    /\ MoneyValue(table[Len(table)][2]) = SumAmount(items)
    /\ \A k \in 1..(Len(table) - 1) : table[k][1] # TotalLabel

IsDocument(resp) == resp.status = 200 /\ resp.detail = "application/pdf"

\* C15: in every rendered invoice (returned, attached or sent) the itemized
\* table has exactly one row per line item, in input order, each with the
\* amount hour_rate x quantity of its item, followed by a single Total row
\* whose amount is the sum of hour_rate x quantity over all items (0 for an
\* empty list).
C15_TableRowsAndTotal ==
    /\ \A i \in 1..Len(responses) :
          IsDocument(responses[i]) =>
              TableOfItems(responses[i].table, responses[i].bills)
    /\ \A i \in 1..Len(attachments) :
          TableOfItems(attachments[i].table, attachments[i].bills)
    /\ \A k \in 1..Len(outbox) : \A i \in 1..Len(outbox[k]) :
          TableOfItems(outbox[k][i].table, outbox[k][i].bills)

\* C15 witness: a returned invoice with two items of different non-zero
\* amounts, whose Total row shows their sum.
C15_Witness ==
    \E i \in 1..Len(responses) :
        /\ IsDocument(responses[i])
        /\ Len(responses[i].bills) = 2
        /\ responses[i].bills[1].hour_rate * responses[i].bills[1].quantity = 1
        /\ responses[i].bills[2].hour_rate * responses[i].bills[2].quantity = 2
        /\ Len(responses[i].table) = 4
        /\ MoneyValue(responses[i].table[4][2]) = 3

\* the request carries the token of a stored, unexpired session
Authenticated(r) == r.token # None /\ GetSession(r.token) # NoUser

NoDocument(resp) ==
    /\ ~IsDocument(resp)
    /\ resp.bills = <<>> /\ resp.table = <<>> /\ resp.filename = <<>>

\* C16: while the corporation row or the bill-to row is absent, every POST
\* /api/generate and POST /api/send_email is answered with an error and no
\* document, with HTTP 400 when the request is authenticated, and the handler
\* never gets to segment, render or send anything.
C16_MissingAddressRejected ==
    (corporation = NoRow \/ bill_to = NoRow) =>
        /\ pc = "idle"
        /\ bills = <<>> /\ attachments = <<>> /\ outbox = <<>>
        /\ \A i \in 1..Len(responses) :
              requests[i].kind \in {"generate", "send_email"} =>
                  /\ NoDocument(responses[i])
                  /\ responses[i].status # 200
                  /\ Authenticated(requests[i]) => responses[i].status = 400

\* C16 witness: an authenticated POST /api/send_email with configured email
\* settings and stored hours was answered 400 because the bill-to row is
\* absent.
C16_Witness ==
    /\ corporation # NoRow /\ bill_to = NoRow
    /\ email_settings = EmailRow
    /\ time_entries # EmptyMap
    /\ Len(responses) = 1
    /\ requests[1].kind = "send_email"
    /\ Authenticated(requests[1])
    /\ responses[1] = Response(400, "Corporation or Bill To info missing", <<>>)

\* the entries of a POST /api/generate request dated within its range
EntriesInRange(r) ==
    {k \in 1..Len(r.entries) :
        /\ StrLeq(r.start_date, r.entries[k].date)
        /\ StrLeq(r.entries[k].date, r.end_date)}

\* C17: an authenticated POST /api/generate (with an end_date) whose entry list
\* is empty or has no entry dated within the requested range is answered with
\* HTTP 400 and no document, and every document it returns has a line item
\* that ends on the date of a submitted entry within the range.
C17_NothingBillableRejected ==
    \A i \in 1..Len(responses) :
        ( /\ requests[i].kind = "generate"
          /\ Authenticated(requests[i])
          /\ requests[i].end_date # <<>> ) =>
            /\ EntriesInRange(requests[i]) = {} =>
                  responses[i].status = 400 /\ NoDocument(responses[i])
            /\ IsDocument(responses[i]) =>
                  \E k \in 1..Len(responses[i].bills) :
                      \E e \in EntriesInRange(requests[i]) :
                          Strftime(responses[i].bills[k].end_date)
                              = requests[i].entries[e].date

SlugChars == Range(LowerLetters) \cup Range(DigitChars) \cup {"_"}

\* lower-case letters, digits and single underscores, none at either end
IsSlug(t) ==
    /\ \A i \in 1..Len(t) : t[i] \in SlugChars
    /\ t # <<>> => t[1] # "_" /\ t[Len(t)] # "_"
    /\ \A i \in 1..(Len(t) - 1) : ~(t[i] = "_" /\ t[i + 1] = "_")

\* the letters and digits of a text, in order
LettersAndDigits(t) == SelectSeq(t, LAMBDA c : c \in SlugChars \ {"_"})

\* YYYYMMDD, read as a number, of the day after day index d
DayAfterAsNumber(d) ==
    IF d + 1 < NextMonthFirst THEN 20240301 + (d + 1)
    ELSE 20240401 + (d + 1 - NextMonthFirst)

\* the file name is slug + "_invoice_" + invoice_number + "_" + YYYYMMDD of the
\* day after last_day + ".pdf", and the slug is one of company_name
FilenameOf(filename, company_name, invoice_number, last_day) ==
    LET number == Str(invoice_number)
        rest == 9 + Len(number) + 1 + 8 + 4
        slug == SubSeq(filename, 1, Len(filename) - rest)
        tail == SubSeq(filename, Len(filename) - rest + 1, Len(filename))
    IN /\ Len(filename) >= rest
       /\ SubSeq(tail, 1, 9) = <<"_", "i", "n", "v", "o", "i", "c", "e", "_">>
       /\ NumberValue(SubSeq(tail, 10, 9 + Len(number))) = invoice_number
       /\ tail[10 + Len(number)] = "_"
       /\ NumberValue(SubSeq(tail, 11 + Len(number), 18 + Len(number)))
             = DayAfterAsNumber(last_day)
       /\ SubSeq(tail, 19 + Len(number), rest) = <<".", "p", "d", "f">>
       /\ IsSlug(slug)
       /\ LettersAndDigits(slug) = LettersAndDigits(Lower(company_name))
       /\ SafeCorpName(slug) = slug

PeriodEnd(r) == IF r.kind = "pdf" THEN r.end_date ELSE Strptime(r.end_date)

\* C18: the file name of every invoice returned or sent is slug(company_name)
\* + "_invoice_" + invoice_number + "_" + YYYYMMDD of the day after the period
\* end + ".pdf", where the slug has only lower-case letters, digits and single
\* underscores, no underscore at either end, and is its own slug.
C18_FilenameAndSlug ==
    /\ \A i \in 1..Len(responses) :
          IsDocument(responses[i]) =>
              FilenameOf(responses[i].filename, corporation.company_name,
                         requests[i].invoice_number, PeriodEnd(requests[i]))
    /\ \A k \in 1..Len(outbox) :
          /\ Len(outbox[k]) = 2
          /\ FilenameOf(outbox[k][1].filename, corporation.company_name,
                        requests[1].invoice_number, FirstHalfEnd)
          /\ FilenameOf(outbox[k][2].filename, corporation.company_name,
                        requests[1].invoice_number + 1, SecondHalfEnd)

\* C18 witness: an invoice with number 12 was returned for a company name of
\* four characters: an upper-case letter, two characters in a row that are
\* neither letter nor digit, and a digit; its slug has three characters.
C18_Witness ==
    \E i \in 1..Len(responses) :
        /\ IsDocument(responses[i])
        /\ requests[i].invoice_number = 12
        /\ Len(corporation.company_name) = 4
        /\ corporation.company_name[1] = "A"
        /\ corporation.company_name[2] \notin SlugChars \ {"_"}
        /\ corporation.company_name[3] \notin SlugChars \ {"_"}
        /\ corporation.company_name[4] = "7"
        /\ SubSeq(responses[i].filename, 1, 4) = <<"a", "_", "7", "_">>

\* what the server stores: the tables and the users it loaded
stored ==
    <<corporation, bill_to, ship_to, time_entries, email_settings, settings,
      sessions, users, allowed_users>>

Answered == Len(responses') = Len(responses) + 1

\* C19: a step of POST /api/generate or POST /api/send_email changes what the
\* server stores only if it is the step that returns success, and every step
\* that returns an error returns no document and changes nothing stored: a
\* request that ends in an error leaves the stored state as it found it.
C19_NoPartialSuccess ==
    [][ /\ stored' # stored =>
              Answered /\ responses'[Len(responses')].status = 200
        /\ (Answered /\ responses'[Len(responses')].status # 200) =>
              /\ NoDocument(responses'[Len(responses')])
              /\ stored' = stored ]_vars

\* C19 witness: POST /api/send_email rendered both invoices from stored hours,
\* the SMTP step failed, and the answer is a 500 with next_invoice_number
\* still 1.
C19_Witness ==
    /\ Len(responses) = 1
    /\ requests[1].kind = "send_email"
    /\ time_entries # EmptyMap
    /\ responses[1].status = 500
    /\ NoDocument(responses[1])
    /\ settings["next_invoice_number"] = 1

(***************************************************************************)
(* POST /api/login.  The handler has no await: it runs to its end before   *)
(* the next request is served.  Login requests arrive one after the other  *)
(* while the clock advances.                                               *)
(***************************************************************************)
MaxLogins == 6       \* login requests of one behaviour
MaxTicks == 1        \* steps of the clock

\* "Rate limited to 5 attempts per minute per IP"
LoginLimit == 5
LoginWindow == 60

TickSeconds == LoginWindow \div 2

ClientIps == {"10.0.0.1", "10.0.0.2"}

\* username and password of an attempt: right, wrong password, unknown user
Credentials == {<<"alice", "pw">>, <<"alice", "guess">>, <<"mallory", "pw">>}

LoginRequest(ip, username, password) ==
    [kind |-> "login", ip |-> ip, username |-> username, password |-> password,
     at |-> now]

LoginResponse(token, username) ==
    [status |-> 200, detail |-> "LoginResponse", token |-> token,
     username |-> username]

\* the tokens that logins have handed out so far
IssuedTokens ==
    {responses[i].token : i \in {j \in 1..Len(responses) :
                                     responses[j].detail = "LoginResponse"}}

\* generate_session_token(): 32 random bytes, a token that was never handed
\* out before (neither stored at the start nor issued since)
NewToken ==
    LET taken == DOMAIN sessions \cup IssuedTokens \cup {ExpiredSession.token}
    IN  1 + (CHOOSE t \in taken : \A u \in taken : u <= t)

Login(ip, username, password) ==
    /\ pc = "idle"
    /\ ~Pending
    /\ Len(requests) < MaxLogins
    /\ requests' = Append(requests, LoginRequest(ip, username, password))
    /\ IF username \notin DOMAIN allowed_users
       THEN /\ responses' = Append(responses, Response(403, "Invalid credentials", <<>>))
            /\ UNCHANGED sessions
       ELSE IF ~VerifyPassword(password, allowed_users[username])
       THEN /\ responses' = Append(responses, Response(403, "Invalid credentials", <<>>))
            /\ UNCHANGED sessions
       ELSE /\ sessions' =
                  [t \in DOMAIN sessions \cup {NewToken} |->
                      IF t = NewToken
                      THEN [username |-> username, expires_at |-> now + SessionLifetime]
                      ELSE sessions[t]]
            /\ responses' = Append(responses, LoginResponse(NewToken, username))
    /\ UNCHANGED <<dbVars, allowed_users, users, config, now, handlerVars>>

LoginArrives ==
    \E ip \in ClientIps, c \in Credentials : Login(ip, c[1], c[2])

\* time passes between two requests
Tick ==
    /\ pc = "idle"
    /\ now < MaxTicks * TickSeconds
    /\ now' = now + TickSeconds
    /\ UNCHANGED <<requests, responses, dbVars, sessions, allowed_users, users,
                   config, handlerVars>>

InitLogin ==
    /\ InitLocals
    /\ InitStore
    /\ requests = <<>>
    /\ corporation = CorpRow
    /\ bill_to = BillRow
    /\ time_entries = EmptyMap
    /\ email_settings = NoRow

NextLogin ==
    \/ LoginArrives
    \/ Tick

SpecLogin == InitLogin /\ [][NextLogin]_vars

\* the requests up to the i-th from the same address within the minute that
\* ends with the i-th, that were not turned away before the credential check
AttemptsChecked(i) ==
    {j \in 1..i :
        /\ requests[j].kind = "login"
        /\ requests[j].ip = requests[i].ip
        /\ requests[j].at > requests[i].at - LoginWindow
        /\ responses[j].status \in {200, 403}}

\* C20: of the POST /api/login requests of one client address, at most 5
\* within any one minute reach the credential check (are answered 200 or 403
\* "Invalid credentials"); the others are turned away with no session created.
C20_LoginRateLimited ==
    \A i \in 1..Len(responses) :
        requests[i].kind = "login" => Cardinality(AttemptsChecked(i)) <= LoginLimit

(***************************************************************************)
(* Startup: create_application(config_path) reads the configuration file,  *)
(* validates it and loads the users.  The server is started again and      *)
(* again on the same database, and the file is edited between two starts.  *)
(***************************************************************************)
MaxStartups == 2     \* starts of the server in one behaviour

Usernames == {"alice", "bob"}
Passwords == {"pw", "new"}

\* outcomes of bcrypt.gensalt()
Salts == {"s1", "s2"}

\* maps from some of the names to values
PartialMaps(names, values) ==
    UNION {[S -> values] : S \in SUBSET names}

\* contents of the configuration file: allowed_users left out, empty, or a map
ConfigFiles ==
    {ConfigWithout} \cup {ConfigFile(m) : m \in PartialMaps(Usernames, Passwords)}

\* table users as earlier runs left it
UserTables ==
    { [u \in DOMAIN m |-> HashPw(m[u], StoredSalt)]
      : m \in PartialMaps(Usernames, Passwords) }

\* Config(**config_dict): a field that is left out takes its default_factory
\* value, and pydantic runs a field_validator on given values only
\* (validate_default is off); a given value goes through validate_users
ValidateUsers(v) == v # EmptyMap
ConfigAccepted(config_dict) ==
    "allowed_users" \in DOMAIN config_dict => ValidateUsers(config_dict.allowed_users)

\* config.model_dump()
ModelDump(config_dict) ==
    IF "allowed_users" \in DOMAIN config_dict
    THEN config_dict
    ELSE ConfigFile(EmptyMap)

\* d[k] = v of a dict, and INSERT OR REPLACE of a row keyed by k
Put(f, k, v) == [x \in DOMAIN f \cup {k} |-> IF x = k THEN v ELSE f[x]]

\* db.save_user(username, password_hash)
SaveUser(table, username, password_hash) == Put(table, username, password_hash)

\* the keys of a dict in the order the loop visits them
RECURSIVE Keys(_)
Keys(S) ==
    IF S = {} THEN <<>>
    ELSE LET k == CHOOSE x \in S : TRUE IN <<k>> \o Keys(S \ {k})

\* the test of the loop that takes every config user for a new one
NewUserAlways(username, db_users) == TRUE

\* `if username not in db_users`
NewUser(username, db_users) == username \notin DOMAIN db_users

\* the loop of load_users_from_db over config_users.items(): the table and
\* the dict db_users after it
RECURSIVE SyncUsers(_, _, _, _, _)
SyncUsers(names, config_users, salt, table, db_users) ==
    IF names = <<>> THEN [table |-> table, db_users |-> db_users]
    ELSE LET username == Head(names)
             password_hash == HashPw(config_users[username], salt[username])
         IN  IF NewUser(username, db_users)
             THEN SyncUsers(Tail(names), config_users, salt,
                            SaveUser(table, username, password_hash),
                            Put(db_users, username, password_hash))
             ELSE SyncUsers(Tail(names), config_users, salt, table, db_users)

\* load_users_from_db(db, config): the table afterwards and the returned dict
LoadUsersFromDb(table, config_dump, salt) ==
    SyncUsers(Keys(DOMAIN config_dump.allowed_users), config_dump.allowed_users,
              salt, table, table)

StartupRequest == [kind |-> "startup", config |-> config]

\* create_application(config_path), the whole of it
CreateApplication ==
    /\ pc = "idle"
    /\ ~Pending
    /\ Len(requests) < MaxStartups
    /\ requests' = Append(requests, StartupRequest)
    /\ IF ~ConfigAccepted(config)
       THEN /\ responses' = Append(responses, Response(1, "Invalid configuration", <<>>))
            /\ allowed_users' = EmptyMap
            /\ UNCHANGED users
       ELSE \E salt \in [Usernames -> Salts] :
               LET loaded == LoadUsersFromDb(users, ModelDump(config), salt)
               IN  /\ users' = loaded.table
                   /\ allowed_users' = loaded.db_users
                   /\ responses' = Append(responses,
                         Response(0, "Application created successfully", <<>>))
    /\ UNCHANGED <<dbVars, sessions, config, now, handlerVars>>

\* the configuration file is edited while the server is down
EditConfig ==
    /\ pc = "idle"
    /\ Len(requests) < MaxStartups
    /\ \E c \in ConfigFiles \ {config} : config' = c
    /\ allowed_users' = EmptyMap
    /\ UNCHANGED <<requests, responses, dbVars, sessions, users, now, handlerVars>>

InitStartup ==
    /\ InitLocals
    /\ requests = <<>>
    /\ responses = <<>>
    /\ outbox = <<>>
    /\ settings = [k \in {"next_invoice_number"} |-> 1]
    /\ corporation = NoRow
    /\ bill_to = NoRow
    /\ ship_to = NoRow
    /\ time_entries = EmptyMap
    /\ email_settings = NoRow
    /\ sessions = EmptyMap
    /\ now = 0
    /\ allowed_users = EmptyMap
    /\ config \in ConfigFiles
    /\ users \in UserTables

NextStartup ==
    \/ CreateApplication
    \/ EditConfig

SpecStartup == InitStartup /\ [][NextStartup]_vars

\* a step in which create_application ran to its end
Started ==
    /\ Len(responses') = Len(responses) + 1
    /\ requests'[Len(requests')].kind = "startup"
    /\ responses'[Len(responses')].status = 0

\* the users of the configuration the server was started with
ConfigUsers == ModelDump(config).allowed_users

\* an earlier start loaded the users from the same configuration
LoadedBefore ==
    \E i \in 1..Len(responses) :
        requests[i].kind = "startup" /\ requests[i].config = config
        /\ responses[i].status = 0

\* C21: load_users_from_db adds to table users exactly the config users whose
\* name is not stored yet, each with a hash of its config password, and leaves
\* the hash of every stored user as it is, whatever password the config lists
\* for it; the returned map is the table after the call and holds every config
\* user; a second call with the same config writes nothing.
C21_LoadUsersAddsOnlyNew ==
    [][ Started =>
          /\ DOMAIN users' = DOMAIN users \cup DOMAIN ConfigUsers
          /\ \A u \in DOMAIN users : users'[u] = users[u]
          /\ \A u \in DOMAIN ConfigUsers \ DOMAIN users :
                VerifyPassword(ConfigUsers[u], users'[u])
          /\ allowed_users' = users'
          /\ DOMAIN ConfigUsers \subseteq DOMAIN allowed_users'
          /\ LoadedBefore => users' = users ]_vars

\* C21 witness: the server was started twice with a configuration that lists
\* a new password for the stored user alice and the new user bob; alice kept
\* the stored hash and bob was added with a fresh hash.
C21_Witness ==
    /\ Len(responses) = 2
    /\ responses[1].status = 0 /\ responses[2].status = 0
    /\ requests[1].config = requests[2].config
    /\ config = requests[2].config
    /\ "allowed_users" \in DOMAIN config
    /\ DOMAIN config.allowed_users = {"alice", "bob"}
    /\ config.allowed_users["alice"] = "new"
    /\ users["alice"] = HashPw("pw", StoredSalt)
    /\ users["bob"][2] \in Salts
    /\ allowed_users = users

(***************************************************************************)
(* The other routes of the router.  Each handler is served from its        *)
(* get_current_user dependency to its return in one step: it has no await  *)
(* and touches the database through synchronous calls.                     *)
(***************************************************************************)
MaxRequests == 3     \* requests of one behaviour of the session routes
MaxApiRequests == 2  \* requests of one behaviour of all the routes
MaxSleeps == 2       \* steps of the clock, of half a session lifetime each

\* a request of a route: the X-Auth-Token header, the body and the arrival time
ApiRequest(kind, token, data) ==
    [kind |-> kind, token |-> token, data |-> data, at |-> now]

\* AuthenticationError, as the exception handler answers it
Forbidden == Response(403, "Invalid authentication credentials", <<>>)

\* a handler's return value; current_user is the argument the dependency gave it
Json(current_user, body) ==
    [status |-> 200, detail |-> "json", current_user |-> current_user, body |-> body]

Success == [status |-> "success"]

\* the server is idle and no request is waiting
ApiIdle == pc = "idle" /\ ~Pending

Serve(r, resp) ==
    /\ requests' = Append(requests, r)
    /\ responses' = Append(responses, resp)

\* DeleteSession that removes every session of the token's user
DeleteSessionsOfUser(table, token) ==
    [t \in {u \in DOMAIN table : table[u].username # table[token].username} |->
        table[t]]

\* db.delete_session(token): DELETE FROM sessions WHERE token = ?
DeleteSession(table, token) == [t \in DOMAIN table \ {token} |-> table[t]]

\* POST /api/logout
Logout(token) ==
    /\ ApiIdle
    /\ LET r == ApiRequest("logout", token, <<>>)
       IN  IF GetCurrentUser(r) = NoUser
           THEN Serve(r, Forbidden) /\ UNCHANGED sessions
           ELSE /\ sessions' = IF token # None
                               THEN DeleteSession(sessions, token) ELSE sessions
                /\ Serve(r, Json(GetCurrentUser(r), Success))
    /\ UNCHANGED <<dbVars, allowed_users, users, config, now, handlerVars>>

\* the rows the GET routes answer with while the table is empty
NoAddress == [company_name |-> <<>>]

\* a GET route that reads one row
GetRow(kind, token, row) ==
    /\ ApiIdle
    /\ LET r == ApiRequest(kind, token, <<>>)
       IN  IF GetCurrentUser(r) = NoUser
           THEN Serve(r, Forbidden)
           ELSE Serve(r, Json(GetCurrentUser(r), IF row = NoRow THEN NoAddress ELSE row))
    /\ UNCHANGED <<dbVars, appVars, handlerVars>>

\* INSERT OR REPLACE of the row with id 1
AddressRow(data) == [id |-> 1, company_name |-> data.company_name]

\* GET /api/corporation
GetCorp(token) == GetRow("get_corp", token, corporation)

\* POST /api/corporation
SaveCorp(token, data) ==
    /\ ApiIdle
    /\ LET r == ApiRequest("save_corp", token, data)
       IN  IF GetCurrentUser(r) = NoUser
           THEN Serve(r, Forbidden) /\ UNCHANGED corporation
           ELSE /\ corporation' = AddressRow(data)
                /\ Serve(r, Json(GetCurrentUser(r), Success))
    /\ UNCHANGED <<bill_to, ship_to, time_entries, email_settings, settings, outbox,
                   appVars, handlerVars>>

\* GET /api/bill_to
GetBillTo(token) == GetRow("get_bill_to", token, bill_to)

\* POST /api/bill_to
SaveBillTo(token, data) ==
    /\ ApiIdle
    /\ LET r == ApiRequest("save_bill_to", token, data)
       IN  IF GetCurrentUser(r) = NoUser
           THEN Serve(r, Forbidden) /\ UNCHANGED bill_to
           ELSE /\ bill_to' = AddressRow(data)
                /\ Serve(r, Json(GetCurrentUser(r), Success))
    /\ UNCHANGED <<corporation, ship_to, time_entries, email_settings, settings,
                   outbox, appVars, handlerVars>>

\* GET /api/ship_to
GetShipTo(token) == GetRow("get_ship_to", token, ship_to)

\* POST /api/ship_to
SaveShipTo(token, data) ==
    /\ ApiIdle
    /\ LET r == ApiRequest("save_ship_to", token, data)
       IN  IF GetCurrentUser(r) = NoUser
           THEN Serve(r, Forbidden) /\ UNCHANGED ship_to
           ELSE /\ ship_to' = AddressRow(data)
                /\ Serve(r, Json(GetCurrentUser(r), Success))
    /\ UNCHANGED <<corporation, bill_to, time_entries, email_settings, settings,
                   outbox, appVars, handlerVars>>

\* GET /api/time_entries?start_date=..&end_date=..
GetEntries(token, start_date, end_date) ==
    /\ ApiIdle
    /\ LET r == ApiRequest("get_entries", token,
                           [start_date |-> start_date, end_date |-> end_date])
       IN  IF GetCurrentUser(r) = NoUser
           THEN Serve(r, Forbidden)
           ELSE Serve(r, Json(GetCurrentUser(r), GetTimeEntries(start_date, end_date)))
    /\ UNCHANGED <<dbVars, appVars, handlerVars>>

\* POST /api/time_entries: INSERT OR REPLACE of the row of the entry's date
SaveEntry(token, entry) ==
    /\ ApiIdle
    /\ LET r == ApiRequest("save_entry", token, entry)
       IN  IF GetCurrentUser(r) = NoUser
           THEN Serve(r, Forbidden) /\ UNCHANGED time_entries
           ELSE /\ time_entries' = Put(time_entries, entry.date, entry)
                /\ Serve(r, Json(GetCurrentUser(r), Success))
    /\ UNCHANGED <<corporation, bill_to, ship_to, email_settings, settings, outbox,
                   appVars, handlerVars>>

\* db.get_setting(key)
GetSettingValue(key) == IF key \in DOMAIN settings THEN settings[key] ELSE None

\* GET /api/settings/{key}
GetSetting(token, key) ==
    /\ ApiIdle
    /\ LET r == ApiRequest("get_setting", token, key)
       IN  IF GetCurrentUser(r) = NoUser
           THEN Serve(r, Forbidden)
           ELSE Serve(r, Json(GetCurrentUser(r),
                              [key |-> key, value |-> GetSettingValue(key)]))
    /\ UNCHANGED <<dbVars, appVars, handlerVars>>

\* POST /api/settings
SaveSetting(token, data) ==
    /\ ApiIdle
    /\ LET r == ApiRequest("save_setting", token, data)
       IN  IF GetCurrentUser(r) = NoUser
           THEN Serve(r, Forbidden) /\ UNCHANGED settings
           ELSE /\ settings' = Put(settings, data.key, data.value)
                /\ Serve(r, Json(GetCurrentUser(r), Success))
    /\ UNCHANGED <<corporation, bill_to, ship_to, time_entries, email_settings,
                   outbox, appVars, handlerVars>>

\* the body of POST /api/email_settings/get
EmailSettingsBody(data) ==
    IF data = NoRow
    THEN [gmail_account |-> "", has_password |-> FALSE]
    ELSE [gmail_account |-> IF Falsy(data.gmail_account) THEN "" ELSE data.gmail_account,
          has_password |-> ~Falsy(data.gmail_app_password)]

\* POST /api/email_settings/get
GetEmailSettings(token) ==
    /\ ApiIdle
    /\ LET r == ApiRequest("get_email_settings", token, <<>>)
       IN  IF GetCurrentUser(r) = NoUser
           THEN Serve(r, Forbidden)
           ELSE Serve(r, Json(GetCurrentUser(r), EmailSettingsBody(email_settings)))
    /\ UNCHANGED <<dbVars, appVars, handlerVars>>

\* KeepPassword that takes the request's password as it is
KeepPasswordNever(save_data, existing) == save_data

\* `if not save_data.get("gmail_app_password") and existing`
KeepPassword(save_data, existing) ==
    IF Falsy(save_data.gmail_app_password) /\ existing # NoRow
    THEN [save_data EXCEPT !.gmail_app_password = existing.gmail_app_password]
    ELSE save_data

\* db.save_email_settings(data): INSERT OR REPLACE of the row with id 1
EmailSettingsRow(data) ==
    [id |-> 1, gmail_account |-> data.gmail_account,
     gmail_app_password |-> data.gmail_app_password]

\* POST /api/email_settings/set
SaveEmailSettings(token, data) ==
    /\ ApiIdle
    /\ LET r == ApiRequest("save_email_settings", token, data)
       IN  IF GetCurrentUser(r) = NoUser
           THEN Serve(r, Forbidden) /\ UNCHANGED email_settings
           ELSE /\ email_settings' = EmailSettingsRow(KeepPassword(data, email_settings))
                /\ Serve(r, Json(GetCurrentUser(r), Success))
    /\ UNCHANGED <<corporation, bill_to, ship_to, time_entries, settings, outbox,
                   appVars, handlerVars>>

\* a request of POST /api/generate or POST /api/send_email arrives; its handler
\* runs through the loop in steps of its own
Arrives(r) ==
    /\ ApiIdle
    /\ requests' = Append(requests, r)
    /\ UNCHANGED <<responses, dbVars, appVars, handlerVars>>

\* the clock advances by half the lifetime of a session
Sleep ==
    /\ pc = "idle"
    /\ ~Pending
    /\ now < MaxSleeps * (SessionLifetime \div 2)
    /\ now' = now + SessionLifetime \div 2
    /\ UNCHANGED <<requests, responses, dbVars, sessions, allowed_users, users,
                   config, handlerVars>>

(***************************************************************************)
(* Sessions: clients log in, log out and call a protected route while the  *)
(* clock advances.  The sessions table starts with the session of a login  *)
(* at time 0 and with one of a login a session lifetime earlier.           *)
(***************************************************************************)
SessionCredentials == {<<"alice", "pw">>, <<"alice", "guess">>, <<"bob", "new">>}

\* the tokens a client may send: none, one that was never issued, and the
\* tokens issued so far
KnownTokens ==
    {None, UnknownToken, StoredSession.token, ExpiredSession.token} \cup IssuedTokens

SessionLogin ==
    \E c \in SessionCredentials : Login("10.0.0.1", c[1], c[2])

\* the behaviour may take another request
SessionOpen == Len(requests) < MaxRequests

\* the two users of the configuration
SessionUsers == [u \in {"alice", "bob"} |-> IF u = "alice" THEN "pw" ELSE "new"]

InitSession ==
    /\ InitLocals
    /\ requests = <<>>
    /\ responses = <<>>
    /\ outbox = <<>>
    /\ settings = [k \in {"next_invoice_number"} |-> 1]
    /\ ship_to = NoRow
    /\ config = ConfigFile(SessionUsers)
    /\ users = [u \in DOMAIN SessionUsers |-> HashPw(SessionUsers[u], StoredSalt)]
    /\ allowed_users = users
    /\ sessions = StoredSessions
    /\ now = 0
    /\ corporation \in {CorpRow, NoRow}
    /\ bill_to = BillRow
    /\ time_entries = EmptyMap
    /\ email_settings = NoRow

NextSession ==
    \/ SessionOpen /\ SessionLogin
    \/ SessionOpen /\ \E t \in KnownTokens : Logout(t)
    \/ SessionOpen /\ \E t \in KnownTokens : GetCorp(t)
    \/ Sleep

SpecSession == InitSession /\ [][NextSession]_vars

\* the successful logins before request i: those of the behaviour, and the two
\* that made the sessions the table starts with (index 0)
LoginsBefore(i) ==
    { [index |-> j, token |-> responses[j].token, username |-> responses[j].username,
       at |-> requests[j].at]
      : j \in {k \in 1..(i - 1) : requests[k].kind = "login"
                                   /\ responses[k].detail = "LoginResponse"} }
    \cup { [index |-> 0, token |-> StoredSession.token,
            username |-> StoredSession.username,
            at |-> StoredSession.expires_at - SessionLifetime],
           [index |-> 0, token |-> ExpiredSession.token,
            username |-> ExpiredSession.username,
            at |-> ExpiredSession.expires_at - SessionLifetime] }

\* a logout with the token succeeded after request j and before request i
LoggedOutBetween(token, j, i) ==
    \E k \in (j + 1)..(i - 1) :
        /\ requests[k].kind = "logout"
        /\ requests[k].token = token
        /\ responses[k].status = 200

\* the logins whose session request i may use
LiveLogins(i) ==
    { l \in LoginsBefore(i) :
        /\ l.token = requests[i].token
        /\ ~LoggedOutBetween(l.token, l.index, i)
        /\ l.at + SessionLifetime > requests[i].at }

ProtectedRequests == {i \in 1..Len(responses) : requests[i].kind # "login"}

\* C22: get_current_user gives a request a username exactly if the token of
\* its X-Auth-Token header was created by a successful login of that user, was
\* not deleted by a logout since, and expires (30 days after the login) in the
\* future; every other request is answered 403 "Invalid authentication
\* credentials".
C22_SessionValidIffLive ==
    \A i \in ProtectedRequests :
        IF LiveLogins(i) # {}
        THEN /\ responses[i].status = 200
             /\ \A l \in LiveLogins(i) : responses[i].current_user = l.username
        ELSE /\ responses[i].status = 403
             /\ responses[i].detail = "Invalid authentication credentials"

\* C22 witness: bob logged in on day 15 and his request on day 30 is served as
\* bob, while a request of day 30 with the token of the login at time 0 is
\* turned away: that session expired at that second.
C22_Witness ==
    /\ Len(responses) = 3
    /\ requests[1].kind = "login" /\ requests[1].at = SessionLifetime \div 2
    /\ responses[1].status = 200 /\ responses[1].username = "bob"
    /\ requests[2].kind = "get_corp" /\ requests[2].at = SessionLifetime
    /\ requests[2].token = responses[1].token
    /\ responses[2].status = 200 /\ responses[2].current_user = "bob"
    /\ requests[3].kind = "get_corp" /\ requests[3].at = SessionLifetime
    /\ requests[3].token = StoredSession.token
    /\ responses[3].status = 403

\* the step answers a request
Replied == Len(responses') = Len(responses) + 1
LastRequest == requests'[Len(requests')]
LastResponse == responses'[Len(responses')]

\* C23: once POST /api/logout succeeded with token t, every later request
\* that carries t is answered 403; the logout leaves every other session, those
\* of the same user included, as it was.
C23_LogoutInvalidatesToken ==
    [][ /\ ( /\ Replied
             /\ LastRequest.kind # "login"
             /\ \E k \in 1..Len(responses) :
                   /\ requests[k].kind = "logout"
                   /\ responses[k].status = 200
                   /\ requests[k].token = LastRequest.token )
           => LastResponse.status = 403
        /\ (Replied /\ LastRequest.kind = "logout" /\ LastResponse.status = 200)
           => /\ LastRequest.token \notin DOMAIN sessions'
              /\ \A u \in DOMAIN sessions \ {LastRequest.token} :
                    u \in DOMAIN sessions' /\ sessions'[u] = sessions[u] ]_vars

\* C23 witness: alice logged in a second time, logged out with the new token
\* and used it again: the request is turned away, and her older session is
\* still stored.
C23_Witness ==
    /\ Len(responses) = 3
    /\ requests[1].kind = "login" /\ responses[1].status = 200
    /\ responses[1].username = StoredSession.username
    /\ requests[2].kind = "logout" /\ requests[2].token = responses[1].token
    /\ responses[2].status = 200
    /\ requests[3].kind = "get_corp" /\ requests[3].token = responses[1].token
    /\ responses[3].status = 403
    /\ StoredSession.token \in DOMAIN sessions
    /\ GetSession(StoredSession.token) = StoredSession.username

(***************************************************************************)
(* All the routes but login, called with and without a valid session.      *)
(***************************************************************************)
\* X-Auth-Token headers: the stored session, none, unknown, expired
ApiTokens == {StoredSession.token, None, UnknownToken, ExpiredSession.token}

NewAddress == [company_name |-> <<"N", "e", "w">>]
NewEntry == TimeEntry(0, 1, 2)
NewSetting == [key |-> "next_invoice_number", value |-> 7]

\* bodies of POST /api/email_settings/set: the password absent, empty or given
EmailSettingsData ==
    { [gmail_account |-> "other@gmail.com", gmail_app_password |-> p]
      : p \in {PyNone, "", "changed"} }

\* a stored row whose password column is NULL
EmailRowNoPassword == [EmailRow EXCEPT !.gmail_app_password = PyNone]

ApiGenerateRequest == GenerateRequest(Strftime(0), Strftime(1), <<TimeEntry(0, 1, 1)>>)

\* the behaviour may take another request
ApiOpen == Len(requests) < MaxApiRequests

InitApi ==
    /\ InitLocals
    /\ InitStore
    /\ requests = <<>>
    /\ corporation = CorpRow
    /\ bill_to = BillRow
    /\ time_entries \in {EmptyMap, [k \in {Strftime(1)} |-> TimeEntry(1, 1, 1)]}
    /\ email_settings \in {EmailRow, NoRow, EmailRowNoPassword}

NextApi ==
    \/ ApiOpen /\ \E t \in ApiTokens : Logout(t)
    \/ ApiOpen /\ \E t \in ApiTokens : GetCorp(t)
    \/ ApiOpen /\ \E t \in ApiTokens : SaveCorp(t, NewAddress)
    \/ ApiOpen /\ \E t \in ApiTokens : GetBillTo(t)
    \/ ApiOpen /\ \E t \in ApiTokens : SaveBillTo(t, NewAddress)
    \/ ApiOpen /\ \E t \in ApiTokens : GetShipTo(t)
    \/ ApiOpen /\ \E t \in ApiTokens : SaveShipTo(t, NewAddress)
    \/ ApiOpen /\ \E t \in ApiTokens : GetEntries(t, Strftime(0), Strftime(1))
    \/ ApiOpen /\ \E t \in ApiTokens : SaveEntry(t, NewEntry)
    \/ ApiOpen /\ \E t \in ApiTokens : GetSetting(t, "next_invoice_number")
    \/ ApiOpen /\ \E t \in ApiTokens : SaveSetting(t, NewSetting)
    \/ ApiOpen /\ \E t \in ApiTokens : GetEmailSettings(t)
    \/ ApiOpen /\ \E t \in ApiTokens, data \in EmailSettingsData :
                     SaveEmailSettings(t, data)
    \/ ApiOpen /\ \E t \in ApiTokens : Arrives([ApiGenerateRequest EXCEPT !.token = t])
    \/ ApiOpen /\ \E t \in ApiTokens, r \in SendEmailRequests :
                     Arrives([r EXCEPT !.token = t])
    \/ GenerateStart
    \/ GenerateWeekStart
    \/ GenerateWalkDay
    \/ GenerateWeekEnd
    \/ GenerateFinish
    \/ SendEmailStart
    \/ PdfWeekStart
    \/ PdfWalkDay
    \/ PdfWeekEnd
    \/ PdfFinish
    \/ SendEmailSent
    \/ SendEmailSmtpError

SpecApi == InitApi /\ [][NextApi]_vars

\* the password column of the stored row; an empty table stores none
StoredPassword(row) == IF row = NoRow THEN PyNone ELSE row.gmail_app_password

\* C24: a POST /api/email_settings/set whose gmail_app_password is empty or
\* absent leaves the stored password as it was, and one with a password
\* stores that password; the answer of POST /api/email_settings/get carries
\* the flag has_password and never the password.
C24_PasswordPreserved ==
    [][ /\ ( /\ Replied
             /\ LastRequest.kind = "save_email_settings"
             /\ LastResponse.status = 200 )
           => IF Falsy(LastRequest.data.gmail_app_password)
              THEN IF email_settings # NoRow
                   THEN StoredPassword(email_settings') = StoredPassword(email_settings)
                   ELSE Falsy(StoredPassword(email_settings'))
              ELSE StoredPassword(email_settings')
                      = LastRequest.data.gmail_app_password
        /\ ( /\ Replied
             /\ LastRequest.kind = "get_email_settings"
             /\ LastResponse.status = 200 )
           => /\ DOMAIN LastResponse.body = {"gmail_account", "has_password"}
              /\ LastResponse.body.has_password
                    = ~Falsy(StoredPassword(email_settings))
              /\ email_settings' = email_settings ]_vars

\* C24 witness: the row held a password, a request without one changed the
\* account and kept the password, and the next request reads has_password.
C24_Witness ==
    /\ Len(responses) = 2
    /\ requests[1].kind = "save_email_settings"
    /\ requests[1].data.gmail_app_password = PyNone
    /\ responses[1].status = 200
    /\ requests[2].kind = "get_email_settings"
    /\ responses[2].status = 200
    /\ responses[2].body.has_password
    /\ email_settings.gmail_account = "other@gmail.com"
    /\ email_settings.gmail_app_password = EmailRow.gmail_app_password

\* the request that the step answers
AnsweredRequest == requests'[Len(responses')]

\* C28: a request to a route other than POST /api/login whose X-Auth-Token is
\* missing, unknown or expired is answered 403 by get_current_user before the
\* handler body runs: the answer carries no stored data, no table, session or
\* user changes, and no email is sent.
C28_ProtectedRoutesNeedSession ==
    [][ /\ ( /\ Replied
             /\ AnsweredRequest.kind # "login"
             /\ ~Authenticated(AnsweredRequest) )
           => /\ LastResponse.status = 403
              /\ LastResponse.detail = "Invalid authentication credentials"
              /\ "body" \notin DOMAIN LastResponse
              /\ NoDocument(LastResponse)
              /\ stored' = stored
              /\ outbox' = outbox
        /\ ~Replied => (stored' = stored /\ outbox' = outbox) ]_vars

\* C28 witness: POST /api/corporation without the header and POST
\* /api/send_email with an expired token were both turned away, the row is as
\* it was and no email left.
C28_Witness ==
    /\ Len(responses) = 2
    /\ requests[1].kind = "save_corp" /\ requests[1].token = None
    /\ responses[1].status = 403
    /\ requests[2].kind = "send_email" /\ requests[2].token = ExpiredSession.token
    /\ responses[2].status = 403
    /\ email_settings = EmailRow
    /\ corporation = CorpRow
    /\ outbox = <<>>

\* allowed_users of the Config object made from a configuration file
AllowedUsersOf(config_dict) == ModelDump(config_dict).allowed_users

\* C25: whether allowed_users is given non-empty, given empty or left out of
\* the configuration, create_application ends with an application only if
\* allowed_users of the Config object is not empty, and fails with "Invalid
\* configuration" otherwise.
C25_AtLeastOneUser ==
    \A i \in 1..Len(responses) :
        requests[i].kind = "startup" =>
            IF AllowedUsersOf(requests[i].config) # EmptyMap
            THEN responses[i].status = 0
            ELSE /\ responses[i].status # 0
                 /\ responses[i].detail = "Invalid configuration"

(***************************************************************************)
(* The same range and entries given to POST /api/generate and then to      *)
(* _generate_invoice_pdf.                                                  *)
(***************************************************************************)
BothMaxDay == 4       \* dates range over March 1st .. March 5th
BothMaxEntries == 2   \* entries of the request

BothDays == 0..BothMaxDay

\* the non-empty entry lists with distinct dates, in date order
BothLists ==
    { EntriesOf(f, 0, BothMaxDay)
      : f \in { g \in [BothDays -> DayChoices]
                : Cardinality({d \in BothDays : g[d] # <<>>}) \in 1..BothMaxEntries } }

InitBoth ==
    /\ InitLocals
    /\ InitStore
    /\ corporation = CorpRow
    /\ bill_to = BillRow
    /\ time_entries = EmptyMap
    /\ email_settings = NoRow
    /\ \E s \in BothDays, e \in BothDays, l \in BothLists :
          /\ s <= e
          /\ \E entries \in {l, Reverse(l)} :
                requests = <<GenerateRequest(Strftime(s), Strftime(e), entries),
                             PdfCallOf(s, e, entries)>>

NextBoth ==
    \/ GenerateStart
    \/ GenerateWeekStart
    \/ GenerateWalkDay
    \/ GenerateWeekEnd
    \/ GenerateFinish
    \/ PdfCall
    \/ PdfWeekStart
    \/ PdfWalkDay
    \/ PdfWeekEnd
    \/ PdfFinish

SpecBoth == InitBoth /\ [][NextBoth]_vars

\* C26: for a range with start_date <= end_date and a non-empty entry list
\* with distinct dates, generate_invoice (called with an explicit end_date) and
\* _generate_invoice_pdf build the same sequence of line items.
C26_TwoLoopsAgree ==
    Len(responses) = 2 =>
        /\ IsDocument(responses[1])
        /\ IsDocument(responses[2])
        /\ responses[1].bills = responses[2].bills

\* C26 witness: both ran over a range that crosses a week boundary with the
\* entries passed latest first, and both built a segment and a 0-hour bill.
C26_Witness ==
    /\ Len(responses) = 2
    /\ Len(requests[1].entries) = 2
    /\ ~StrLeq(requests[1].entries[1].date, requests[1].entries[2].date)
    /\ requests[1].entries[1].hourly_rate # requests[1].entries[2].hourly_rate
    /\ Weekday(requests[2].start_date) > Weekday(requests[2].end_date)
    /\ Len(responses[2].bills) >= 2
    /\ \E i \in 1..Len(responses[2].bills) : responses[2].bills[i].quantity = 0
    /\ \E i \in 1..Len(responses[2].bills) : responses[2].bills[i].quantity > 0
    /\ responses[1].bills = responses[2].bills

\* the date of the latest entry of a request
LatestEntryDate(r) == Sorted(r.entries)[Len(r.entries)].date

\* C27: an authenticated POST /api/generate without end_date, with entries and
\* both address rows stored, runs the segmentation over [start_date, date of
\* the latest entry] and returns a document, as it does when that date is
\* passed as end_date.
C27_EndDateDefaultsToLatestEntry ==
    \A i \in 1..Len(responses) :
        ( /\ requests[i].kind = "generate"
          /\ Authenticated(requests[i])
          /\ ~AddressMissing
          /\ requests[i].end_date = <<>>
          /\ requests[i].entries # <<>>
          /\ StrLeq(requests[i].start_date, LatestEntryDate(requests[i])) ) =>
            /\ IsDocument(responses[i])
            /\ responses[i].bills # <<>>
            /\ responses[i].bills[1].start_date = Strptime(requests[i].start_date)
            /\ Strftime(responses[i].bills[Len(responses[i].bills)].end_date)
                  = LatestEntryDate(requests[i])

(***************************************************************************)
(* The loop alone, over ranges that touch up to two calendar weeks: one    *)
(* request or call with at most one entry.  A handler that has started    *)
(* runs on to its end.                                                     *)
(***************************************************************************)
LoopMaxDay == 9       \* dates range over March 1st .. March 10th

LoopDays == 0..LoopMaxDay

LoopLists == {<<>>} \cup {<<TimeEntry(d, 1, 1)>> : d \in LoopDays}

InitLoop ==
    /\ InitLocals
    /\ InitStore
    /\ corporation = CorpRow
    /\ bill_to = BillRow
    /\ time_entries = EmptyMap
    /\ email_settings = NoRow
    /\ \E s \in LoopDays, e \in LoopDays, l \in LoopLists :
          \/ requests = <<GenerateRequest(Strftime(s), Strftime(e), l)>>
          \/ requests = <<PdfCallOf(s, e, l)>>

NextLoop ==
    \/ GenerateStart
    \/ GenerateWeekStart
    \/ GenerateWalkDay
    \/ GenerateWeekEnd
    \/ GenerateFinish
    \/ PdfCall
    \/ PdfWeekStart
    \/ PdfWalkDay
    \/ PdfWeekEnd
    \/ PdfFinish

SpecLoop == InitLoop /\ [][NextLoop]_vars /\ WF_vars(NextLoop)

\* positions of the two copies of the loop
AtOuter == {"gen_outer", "pdf_outer"}
AtWalk == {"gen_walk", "pdf_walk"}
AtClose == {"gen_close", "pdf_close"}
AtAfter == {"gen_after", "pdf_after"}

LoopRunning == pc \in AtOuter \cup AtWalk \cup AtClose

\* what a step of the loop does to the cursor and to the walk
LoopAdvances ==
    /\ (pc \in AtOuter /\ pc' \in AtWalk) =>
          /\ current_dt <= end_dt
          /\ current_dt = start_dt \/ Weekday(current_dt) = 0
          /\ walk_dt' = current_dt
          /\ week_end_dt' >= current_dt /\ week_end_dt' <= end_dt
          /\ Monday(week_end_dt') = Monday(current_dt)
          /\ week_end_dt' = end_dt \/ Weekday(week_end_dt') = 6
    /\ (pc \in AtWalk /\ pc' \in AtWalk) =>
          walk_dt <= week_end_dt /\ walk_dt' = walk_dt + 1
    /\ (pc \in AtWalk /\ pc' \in AtClose) =>
          walk_dt = week_end_dt + 1
    /\ (pc \in AtClose /\ pc' \in AtOuter) =>
          /\ current_dt' = week_end_dt + 1
          /\ current_dt' - current_dt >= 1
          /\ current_dt' - current_dt <= 7
    /\ (pc \in AtOuter /\ pc' \in AtAfter) =>
          current_dt = IF start_dt <= end_dt THEN end_dt + 1 ELSE start_dt

\* C29: the segmentation loop ends for every range.  An outer iteration
\* starts at the range start or on a Monday, stays within that calendar week
\* and the range, and moves the cursor by 1 to 7 days to the day after
\* week_end; the inner walk starts at the cursor and moves one day at a time
\* up to week_end; so there is at most one outer iteration per calendar week
\* that the range touches, every day of the range is visited once, and the
\* loop is left with the cursor on the day after end_date.
C29_LoopTerminates ==
    /\ [][LoopAdvances]_vars
    /\ LoopRunning ~> (pc \in AtAfter)

\* C29 witness: the loop ended for the range March 1st .. March 10th, which
\* touches two calendar weeks, with a bill for each.
C29_Witness ==
    /\ pc \in AtAfter
    /\ start_dt = 0
    /\ end_dt = LoopMaxDay
    /\ current_dt = end_dt + 1
    /\ Cardinality({Monday(d) : d \in start_dt..end_dt}) = 2
    /\ Len(bills) >= 2

====
